---- MODULE Spec2Model ----
(***************************************************************************)
(* NEC infrared capture-and-decode pipelines of esp_experiments.           *)
(*                                                                         *)
(* The scripts are top-level MicroPython programs: each one runs a         *)
(* `while` loop that calls capture_transitions(), decodes the returned      *)
(* burst and reports or learns the code.  One script runs at a time; the   *)
(* variable `script` says which one, and `pc` is its position in the loop. *)
(*                                                                         *)
(* Python integers are unbounded and a decoded code needs 32 bits, which   *)
(* is one more than TLC's integers hold.  An integer v < 2^32 is therefore *)
(* kept as two 16-bit limbs, v = hi * 2^16 + lo.                           *)
(***************************************************************************)
EXTENDS Integers, Sequences, FiniteSets, TLC

VARIABLES
    script,     \* the script that is running
    pc,         \* its position in the main loop
    sent,       \* environment: the parameters of the last burst on the pin
    trans,      \* the script's global `trans`
    code,       \* the script's global `code`
    out,        \* lines printed since the current iteration's capture began
    learned,    \* remote_keys_decoder: the dict `learned`, in insertion order
    arrived,    \* environment: the codes decoded by the learning loop so far
    table,      \* the script's global dict `keymap`, as (code, label) entries
    ticks,      \* environment: the microsecond counter read by time.ticks_us()
    cap,        \* capture_transitions: its position and its local variables
    obs,        \* environment: what happened during the call of capture_transitions
    led         \* IR_WS2812: the NeoPixel buffer `np`, the matrix and `display_color`

vars == <<script, pc, sent, trans, code, out, learned, arrived,
          table, ticks, cap, obs, led>>

----------------------------------------------------------------------------
(* Python values of `code`: None or an int (two limbs).                    *)

Limb == 2 ^ 16

None == [isNone |-> TRUE, hi |-> 0, lo |-> 0]

Int32(h, l) == [isNone |-> FALSE, hi |-> h, lo |-> l]

\* the literal 0xFFFFFFFF of the main loops
REPEAT_CODE == Int32(Limb - 1, Limb - 1)

ZERO_CODE == Int32(0, 0)

\* mutant: only the number zero is false, None is not
Falsy_zero_only(v) == ~v.isNone /\ v.hi = 0 /\ v.lo = 0

\* Python truthiness of `code`: None and 0 are both falsy
Falsy(v) == v.isNone \/ (v.hi = 0 /\ v.lo = 0)

\* `code is not None`
IsNotNone(v) == ~v.isNone

\* number of data bits of an NEC frame
NBITS == 32

----------------------------------------------------------------------------
(* decode_nec: the copy of ir_detect_keys.py; the copies in                *)
(* remote_ir_sensor_handler.py, remote_keys_decoder.py and IR_WS2812.py    *)
(* are the same statements.                                                *)

\* mutant: the threshold taken inclusively
BitOf_inclusive(d1) == IF d1 >= 1200 THEN 1 ELSE 0

\* `1 if d1 > 1200 else 0`
BitOf(d1) == IF d1 > 1200 THEN 1 ELSE 0

\* mutant: a misaligned pair skipped as a whole
Realign_pair(i) == i + 2

\* `i += 1; continue` on a pair that is not (low, high)
Realign(i) == i + 1

\* mutant: the bit read off the mark before the space
PairBit_mark(t, i) == BitOf(t[i + 1][2])

\* `bits.append(1 if d1 > 1200 else 0)`, d1 the duration of segment i + 1
PairBit(t, i) == BitOf(t[i + 2][2])

\* mutant: the walk goes on after the 32nd bit
Collecting_all(bits) == TRUE

\* `len(bits) < 32` in the while test
Collecting(bits) == Len(bits) < NBITS

\* the while loop over pairs; i is the Python (0-based) index
RECURSIVE PairWalk(_, _, _)
PairWalk(t, i, bits) ==
    IF i + 1 < Len(t) /\ Collecting(bits)
    THEN LET l0 == t[i + 1][1]
             l1 == t[i + 2][1]
             d1 == t[i + 2][2]
         IN  IF l0 # 0 \/ l1 # 1
             THEN PairWalk(t, Realign(i), bits)
             ELSE PairWalk(t, i + 2, Append(bits, PairBit(t, i)))
    ELSE bits

\* `val = (val << 1) | b` on limbs (b is 0 or 1 and the shifted value is even)
ShiftOr(val, b) ==
    Int32(val.hi * 2 + ((val.lo * 2) \div Limb), ((val.lo * 2) % Limb) + b)

\* mutant: bits packed least significant first
RECURSIVE PackFrom_lsb(_, _, _)
PackFrom_lsb(bits, k, val) ==
    IF k > Len(bits) THEN val
    ELSE PackFrom_lsb(bits, k + 1, ShiftOr(val, bits[Len(bits) + 1 - k]))

\* `for b in bits[:32]: val = (val << 1) | b`, from the k-th bit on
RECURSIVE PackFrom(_, _, _)
PackFrom(bits, k, val) ==
    IF k > Len(bits) THEN val
    ELSE PackFrom(bits, k + 1, ShiftOr(val, bits[k]))

\* Python's bits[:32]
Take32(bits) == SubSeq(bits, 1, IF Len(bits) < NBITS THEN Len(bits) ELSE NBITS)

\* mutant: the length check on the collected bits left out
TooFewBits_unchecked(bits) == FALSE

\* `if len(bits) < 32: return None`
TooFewBits(bits) == Len(bits) < NBITS

\* the leader test of decode_nec: both comparisons strict
LeaderOk(t) ==
    LET low      == t[1][1]
        low_dur  == t[1][2]
        high     == t[2][1]
        high_dur == t[2][2]
    IN  /\ ~(low # 0 \/ ~(7000 < low_dur /\ low_dur < 10000))
        /\ ~(high # 1 \/ ~(3500 < high_dur /\ high_dur < 5000))

\* `if len(trans) < 4: return None`
TooShort(t) == Len(t) < 4

\* mutant: the pair walk started at the leader instead of after it
decode_nec_from_leader(t) ==
    IF TooShort(t) THEN None
    ELSE IF ~LeaderOk(t) THEN None
    ELSE LET bits == PairWalk(t, 0, <<>>)
         IN  IF TooFewBits(bits) THEN None
             ELSE PackFrom(Take32(bits), 1, ZERO_CODE)

decode_nec(t) ==
    IF TooShort(t) THEN None
    ELSE IF ~LeaderOk(t) THEN None
    ELSE LET bits == PairWalk(t, 2, <<>>)
         IN  IF TooFewBits(bits) THEN None
             ELSE PackFrom(Take32(bits), 1, ZERO_CODE)

----------------------------------------------------------------------------
(* decode_nec_from_transitions of simple_decoder.py                        *)

RECURSIVE SD_PairWalk(_, _, _)
SD_PairWalk(t, i, bits) ==
    IF i + 1 < Len(t) /\ Collecting(bits)
    THEN LET lvl0 == t[i + 1][1]
             lvl1 == t[i + 2][1]
             dur1 == t[i + 2][2]
         IN  IF lvl0 # 0 \/ lvl1 # 1
             THEN SD_PairWalk(t, i + 1, bits)
             ELSE IF dur1 > 1200
                  THEN SD_PairWalk(t, i + 2, Append(bits, 1))
                  ELSE SD_PairWalk(t, i + 2, Append(bits, 0))
    ELSE bits

\* the leader test of decode_nec_from_transitions: both intervals closed
SD_LeaderOk(t) ==
    LET leader_low      == t[1][1]
        leader_low_dur  == t[1][2]
        leader_high     == t[2][1]
        leader_high_dur == t[2][2]
    IN  /\ ~(leader_low # 0 \/ leader_low_dur < 7000 \/ leader_low_dur > 10000)
        /\ ~(leader_high # 1 \/ leader_high_dur < 3500 \/ leader_high_dur > 5000)

\* mutant: a minimum length above that of a frame without its stop mark
SD_TooShort_frame(t) == Len(t) < 2 * NBITS + 3

\* `if len(trans) < 10: return None`
SD_TooShort(t) == Len(t) < 10

decode_nec_from_transitions(t) ==
    IF SD_TooShort(t) THEN None
    ELSE IF ~SD_LeaderOk(t) THEN None
    ELSE LET bits == SD_PairWalk(t, 2, <<>>)
         IN  IF Len(bits) < NBITS THEN None
             ELSE PackFrom(Take32(bits), 1, ZERO_CODE)

----------------------------------------------------------------------------
(* The keymap of ir_detect_keys.py, as (code, label) entries; `table` is   *)
(* the dict the running script holds.                                      *)

keymap == {
    [code |-> Int32(255, 39015), label |-> "0"],      \* 0xFF9867
    [code |-> Int32(255, 41565), label |-> "1"],      \* 0xFFA25D
    [code |-> Int32(255, 25245), label |-> "2"],      \* 0xFF629D
    [code |-> Int32(255, 57885), label |-> "3"],      \* 0xFFE21D
    [code |-> Int32(255, 8925),  label |-> "4"],      \* 0xFF22DD
    [code |-> Int32(255, 765),   label |-> "5"],      \* 0xFF02FD
    [code |-> Int32(255, 49725), label |-> "6"],      \* 0xFFC23D
    [code |-> Int32(255, 57375), label |-> "7"],      \* 0xFFE01F
    [code |-> Int32(255, 43095), label |-> "8"],      \* 0xFFA857
    [code |-> Int32(255, 36975), label |-> "9"],      \* 0xFF906F
    [code |-> Int32(255, 26775), label |-> "*"],      \* 0xFF6897
    [code |-> Int32(255, 45135), label |-> "#"],      \* 0xFFB04F
    [code |-> Int32(255, 6375),  label |-> "UP"],     \* 0xFF18E7
    [code |-> Int32(255, 19125), label |-> "DOWN"],   \* 0xFF4AB5
    [code |-> Int32(255, 4335),  label |-> "LEFT"],   \* 0xFF10EF
    [code |-> Int32(255, 23205), label |-> "RIGHT"],  \* 0xFF5AA5
    [code |-> Int32(255, 14535), label |-> "OK"] }    \* 0xFF38C7

\* `code in keymap`
InKeymap(c) == \E e \in table : e.code = c

\* `keymap[code]`
KeymapGet(c) == (CHOOSE e \in table : e.code = c).label

----------------------------------------------------------------------------
(* Environment: the bursts a remote (and noise) put on the pin.  A burst   *)
(* is described by its parameters; Burst(p) is its segment list.           *)

Seg(level, dur) == <<level, dur>>

\* k-th bit (1 = most significant) of a 32-bit value, by division
BitAt(v, k) ==
    IF k <= 16 THEN (v.hi \div (2 ^ (16 - k))) % 2
               ELSE (v.lo \div (2 ^ (NBITS - k))) % 2

\* leader, then for each bit a mark and a space, with one spurious
\* (high, 50) segment after pair p.ins when p.ins > 0; cut to p.len segments
FullBurst(p) ==
    LET n == 2 + 2 * NBITS + (IF p.ins > 0 THEN 1 ELSE 0)
        \* position j > 2 of the full burst
        At(j) ==
            LET shifted == p.ins > 0 /\ j > 2 + 2 * p.ins
                q       == IF shifted THEN j - 1 ELSE j
                k       == (q - 1) \div 2          \* pair number 1..NBITS
            IN  IF p.ins > 0 /\ j = 3 + 2 * p.ins THEN Seg(1, 50)
                ELSE IF q % 2 = 1 THEN Seg(0, p.mk)
                ELSE Seg(1, IF BitAt(p.c, k) = 1 THEN p.s1 ELSE p.s0)
    IN  [j \in 1..n |-> IF j = 1 THEN Seg(p.l0, p.ll)
                        ELSE IF j = 2 THEN Seg(p.l1, p.lh)
                        ELSE At(j)]

Burst(p) ==
    LET f == FullBurst(p)
    IN  SubSeq(f, 1, IF p.len < Len(f) THEN p.len ELSE Len(f))

FullLen == 2 + 2 * NBITS

Nominal(c) ==
    [c |-> c, l0 |-> 0, ll |-> 9000, l1 |-> 1, lh |-> 4500,
     s0 |-> 560, s1 |-> 1690, mk |-> 560, ins |-> 0, len |-> FullLen + 1]

SampleCodes ==
    { Int32(255, 39015),       \* 0xFF9867, key "0"
      Int32(255, 14535),       \* 0xFF38C7, key "OK"
      Int32(4660, 22136),      \* 0x12345678, no key
      Int32(32768, 0),         \* 0x80000000
      Int32(0, 1),             \* 0x00000001
      ZERO_CODE,               \* 0x00000000
      REPEAT_CODE }            \* 0xFFFFFFFF

LeaderLowDurs == {6000, 6999, 7000, 7001, 8900, 9000, 9999, 10000, 10001}

LeaderHighDurs == {3499, 3500, 3501, 4400, 4500, 4999, 5000, 5001}

Params ==
    \* every sample code, nominal timing
    { Nominal(c) : c \in SampleCodes }
    \* leader durations and levels
    \cup { [Nominal(Int32(255, 39015)) EXCEPT !.ll = a, !.lh = b]
             : a \in LeaderLowDurs, b \in LeaderHighDurs }
    \cup { [Nominal(Int32(255, 39015)) EXCEPT !.l0 = a, !.l1 = b]
             : a \in {0, 1}, b \in {0, 1} }
    \* space and mark durations
    \cup { [Nominal(c) EXCEPT !.s0 = a, !.s1 = b, !.mk = m]
             : c \in {Int32(255, 39015), Int32(4660, 22136)},
               a \in {0, 560, 1200}, b \in {1201, 1690}, m \in {0, 560, 9000} }
    \* one spurious segment between two pairs
    \cup { [Nominal(c) EXCEPT !.ins = k]
             : c \in {Int32(255, 39015), Int32(4660, 22136), REPEAT_CODE},
               k \in 1..(NBITS - 1) }
    \* truncated bursts
    \cup { [Nominal(c) EXCEPT !.len = n]
             : c \in {Int32(255, 39015), REPEAT_CODE},
               n \in {0, 1, 2, 3, 4, 8, 9, 10, 11, 32, FullLen - 2, FullLen - 1} }

----------------------------------------------------------------------------
(* capture_transitions, seen from the main loop.  A list it returns starts *)
(* with a low segment, alternates, and ends with the closing segment that  *)
(* lasts until the window is over.  The environment sends a frame (or the  *)
(* first pairs of one), a stop mark, and leaves the pin idle.              *)

\* capture window in milliseconds
MAX_WINDOW_MS == 200

RECURSIVE SumDur(_, _)
SumDur(t, k) == IF k > Len(t) THEN 0 ELSE t[k][2] + SumDur(t, k + 1)

\* what capture_transitions returns for the frame of p
Captured(p) ==
    LET f == Burst(p)
    IN  f \o << Seg(0, 560),
                Seg(1, MAX_WINDOW_MS * 1000 - (SumDur(f, 1) + 560)) >>

\* the frames the scripts are run on: low first, alternating levels
CaptureParams ==
    { p \in Params : p.l0 = 0 /\ p.l1 = 1 /\ p.ins = 0
                     /\ p.len >= 2 /\ (p.len % 2 = 0 \/ p.len > FullLen) }

\* the list returned for every frame of CaptureParams
CapturedOf == [p \in CaptureParams |-> Captured(p)]

\* capture_transitions is not running
NoCall ==
    [pc |-> "idle", transitions |-> <<>>, last |-> 0, last_t |-> 0, deadline |-> 0]

\* the longest time kept since the previous learned burst
GapCap == 1000000

\* nothing observed yet: no sample of the idle wait (sawHigh, low), no poll
\* (polls, and reads: the levels the polls read), and no time elapsed since
\* the stamp of the deadline (base), of segment 0 (since) or of the segment
\* in progress (seg).  The pin is not driven by a transmitter (air), so no
\* frame is on the air (frame; tx: the time since it began; heard: a sample
\* of it was low), none triggered a capture (src), none went by unheard
\* (lost), and no burst was learned before (prev: the time since it began).
NoObs ==
    [sawHigh |-> FALSE, low |-> FALSE, polls |-> 0, reads |-> <<>>,
     base |-> 0, since |-> 0, seg |-> 0,
     air |-> "free", frame |-> Nominal(ZERO_CODE), tx |-> 0, heard |-> FALSE,
     src |-> None, lost |-> None, prev |-> GapCap]

\* time.ticks_us() counts modulo this period
TICKS_PERIOD == 2 ^ 30

\* time.ticks_add(t, d)
ticks_add(t, d) == (t + d) % TICKS_PERIOD

\* mutant: plain subtraction of the two counter values
ticks_diff_plain(a, b) == a - b

\* time.ticks_diff(a, b): the signed difference nearest to zero
ticks_diff(a, b) ==
    ((a - b + TICKS_PERIOD \div 2) % TICKS_PERIOD) - TICKS_PERIOD \div 2

\* the frames a transmitter puts on the air: four codes with nominal
\* timing and one with a short leader
PipeParams ==
    { Nominal(c) : c \in { Int32(255, 39015), Int32(4660, 22136),
                           ZERO_CODE, REPEAT_CODE } }
    \cup { [Nominal(Int32(255, 14535)) EXCEPT !.ll = 6000] }

\* a frame on the air: the burst and its stop mark, the pin idles high after
FrameOf == [p \in PipeParams |-> Burst(p) \o <<Seg(0, 560)>>]

RECURSIVE SumFirst(_, _)
SumFirst(t, k) == IF k = 0 THEN 0 ELSE t[k][2] + SumFirst(t, k - 1)

\* the time of every edge of a frame, counted from its start
EdgesOf == [p \in PipeParams |-> [i \in DOMAIN FrameOf[p] |-> SumFirst(FrameOf[p], i)]]

\* the edges of frame p still to come t microseconds after its start
EdgesAfter(p, t) ==
    { EdgesOf[p][i] : i \in { j \in DOMAIN EdgesOf[p] : EdgesOf[p][j] > t } }

SetMin(S) == CHOOSE x \in S : \A y \in S : x <= y

\* the pin t microseconds after the start of frame p
LevelAt(p, t) ==
    LET later == { i \in DOMAIN EdgesOf[p] : t < EdgesOf[p][i] }
    IN  IF later = {} THEN 1 ELSE FrameOf[p][SetMin(later)][1]

\* a frame found in progress by the first sample began this long before
MidFrame == 5000

\* the counter value when a burst ends an idle wait
PipeTicks == {TICKS_PERIOD - 150000}

\* what ir.value() can return now
PinReads ==
    IF obs.air = "free" THEN {0, 1}
    ELSE IF obs.air = "frame" THEN {LevelAt(obs.frame, obs.tx)}
    ELSE {1}

\* the observations d microseconds later
Aged(o, d) ==
    LET over == o.air = "frame" /\ EdgesAfter(o.frame, o.tx + d) = {}
    IN  [o EXCEPT !.base = @ + d, !.since = @ + d, !.seg = @ + d,
                  !.prev = IF @ + d < GapCap THEN @ + d ELSE GapCap,
                  !.tx = IF o.air = "frame" /\ ~over THEN @ + d ELSE 0,
                  !.air = IF over THEN "idle" ELSE @,
                  !.frame = IF over THEN NoObs.frame ELSE @,
                  !.lost = IF over /\ ~o.heard THEN o.frame.c ELSE @]

\* a sample v of the pin has been taken
Sampled(o, v) ==
    [o EXCEPT !.heard = @ \/ (o.air = "frame" /\ v = 0)]

\* d microseconds pass where a transmitter drives the pin; the
\* specifications with a free pin keep no time outside capture_transitions
Pass(d) ==
    IF obs.air = "free" THEN UNCHANGED <<ticks, obs>>
    ELSE /\ ticks' = (ticks + d) % TICKS_PERIOD
         /\ obs' = Aged(obs, d)

\* time.sleep_ms(200) of the detection loops
DETECT_SLEEP_MS == 200

\* mutant: the learning loop sleeps no longer than the detection loops
LEARN_SLEEP_MS_short == DETECT_SLEEP_MS

\* time.sleep_ms(500) of the learning loop
LEARN_SLEEP_MS == 500

capture_transitions(p) ==
    /\ trans' = CapturedOf[p]
    /\ sent' = p

Line(kind, label, c) == [kind |-> kind, label |-> label, code |-> c]

----------------------------------------------------------------------------
(* ir_detect_keys.py, main loop                                            *)

DK_Capture ==
    /\ script = "ir_detect_keys"
    /\ pc = "capture"
    /\ \E p \in CaptureParams : capture_transitions(p)
    /\ out' = <<>>
    /\ pc' = "decode"
    /\ UNCHANGED <<script, code, learned, arrived>>
    /\ UNCHANGED <<table, led, ticks, cap, obs>>

DK_Decode ==
    /\ script = "ir_detect_keys"
    /\ pc = "decode"
    /\ code' = decode_nec(trans)
    /\ pc' = "check"
    /\ UNCHANGED <<script, sent, trans, out, learned, arrived>>
    /\ UNCHANGED <<table, led, ticks, cap, obs>>

\* the if / elif / else chain of the loop body
DK_Report(c) ==
    IF InKeymap(c) THEN Line("Button pressed", KeymapGet(c), c)
    ELSE IF c = REPEAT_CODE THEN Line("(repeat)", "", c)
    ELSE Line("Unknown code", "", c)

DK_Dispatch ==
    /\ script = "ir_detect_keys"
    /\ pc = "check"
    /\ IF Falsy(code)
       THEN /\ pc' = "capture"
            /\ out' = out
       ELSE /\ out' = Append(out, DK_Report(code))
            /\ pc' = "sleep"
    /\ UNCHANGED <<script, sent, trans, code, learned, arrived>>
    /\ UNCHANGED <<table, led, ticks, cap, obs>>

DK_Sleep ==
    /\ script = "ir_detect_keys"
    /\ pc = "sleep"
    /\ Pass(DETECT_SLEEP_MS * 1000)
    /\ pc' = "capture"
    /\ UNCHANGED <<script, sent, trans, code, out, learned, arrived>>
    /\ UNCHANGED <<table, led, cap>>

----------------------------------------------------------------------------
(* simple_decoder.py, main loop                                            *)

SD_Capture ==
    /\ script = "simple_decoder"
    /\ pc = "capture"
    /\ \E p \in CaptureParams : capture_transitions(p)
    /\ out' = <<>>
    /\ pc' = "print"
    /\ UNCHANGED <<script, code, learned, arrived>>
    /\ UNCHANGED <<table, led, ticks, cap, obs>>

\* `if not trans: continue`, else pretty_print(trans)
SD_Print ==
    /\ script = "simple_decoder"
    /\ pc = "print"
    /\ IF trans = <<>>
       THEN /\ pc' = "capture"
            /\ out' = out
       ELSE /\ out' = Append(out, Line("Captured", "", None))
            /\ pc' = "decode"
    /\ UNCHANGED <<script, sent, trans, code, learned, arrived>>
    /\ UNCHANGED <<table, led, ticks, cap, obs>>

SD_Decode ==
    /\ script = "simple_decoder"
    /\ pc = "decode"
    /\ code' = decode_nec_from_transitions(trans)
    /\ pc' = "check"
    /\ UNCHANGED <<script, sent, trans, out, learned, arrived>>
    /\ UNCHANGED <<table, led, ticks, cap, obs>>

SD_Report(c) ==
    IF IsNotNone(c) THEN Line("Decoded NEC 32-bit code", "", c)
    ELSE Line("Could not decode NEC from this capture.", "", c)

\* the report, the rule and time.sleep_ms(200)
SD_Dispatch ==
    /\ script = "simple_decoder"
    /\ pc = "check"
    /\ out' = Append(out, SD_Report(code))
    /\ Pass(DETECT_SLEEP_MS * 1000)
    /\ pc' = "capture"
    /\ UNCHANGED <<script, sent, trans, code, learned, arrived>>
    /\ UNCHANGED <<table, led, cap>>

----------------------------------------------------------------------------
(* remote_keys_decoder.py, the learning loop.  `learned` is a Python dict: *)
(* a list of (btn, code) entries in insertion order, one entry per key.    *)

\* how many names of EXPECTED_BUTTONS the model keeps (the script lists 17)
NumButtons == 3

\* how many decoded codes a run of the learning loop may see
MaxArrivals == 4

EXPECTED_BUTTONS ==
    SubSeq(<<"0", "1", "2", "3", "4", "5", "6", "7", "8", "9",
             "*", "#", "UP", "DOWN", "LEFT", "RIGHT", "OK">>, 1, NumButtons)

\* learned.values()
DictValues(d) == { d[i].code : i \in DOMAIN d }

\* learned.keys()
DictKeys(d) == { d[i].btn : i \in DOMAIN d }

\* d[k] = v: an existing key keeps its place, a new key is appended
DictSet(d, k, v) ==
    IF k \in DictKeys(d)
    THEN [i \in DOMAIN d |-> IF d[i].btn = k THEN [btn |-> k, code |-> v] ELSE d[i]]
    ELSE Append(d, [btn |-> k, code |-> v])

\* mutant: the duplicate test left out
NotLearned_always(c, d) == TRUE

\* `code not in learned.values()`
NotLearned(c, d) == c \notin DictValues(d)

\* mutant: the loop never stops listening
Listening_always(d) == TRUE

\* mutant: the loop gives up one button early
Listening_early(d) == Len(d) < Len(EXPECTED_BUTTONS) - 1

\* `while len(learned) < len(EXPECTED_BUTTONS)`
Listening(d) == Len(d) < Len(EXPECTED_BUTTONS)

LearnParams ==
    { p \in CaptureParams :
        \/ p \in { Nominal(c) : c \in { Int32(255, 39015), Int32(255, 14535),
                                        Int32(4660, 22136), ZERO_CODE, REPEAT_CODE } }
        \/ p \in { [Nominal(Int32(255, 39015)) EXCEPT !.ll = 6000],
                   [Nominal(Int32(255, 39015)) EXCEPT !.len = 32],
                   [Nominal(Int32(255, 39015)) EXCEPT !.len = 2] } }

\* the while test succeeds: capture the next burst
KD_Capture ==
    /\ script = "remote_keys_decoder"
    /\ pc = "capture"
    /\ Listening(learned)
    /\ Len(arrived) < MaxArrivals
    /\ \E p \in LearnParams : capture_transitions(p)
    /\ out' = <<>>
    /\ pc' = "decode"
    /\ UNCHANGED <<script, code, learned, arrived>>
    /\ UNCHANGED <<table, led, ticks, cap, obs>>

\* the while test fails: print the final mapping
KD_Exit ==
    /\ script = "remote_keys_decoder"
    /\ pc = "capture"
    /\ ~Listening(learned)
    /\ out' = <<Line("All buttons captured!", "", None)>>
                \o [i \in DOMAIN learned |->
                      Line("Final mapping", learned[i].btn, learned[i].code)]
    /\ pc' = "done"
    /\ UNCHANGED <<script, sent, trans, code, learned, arrived>>
    /\ UNCHANGED <<table, led, ticks, cap, obs>>

KD_Decode ==
    /\ script = "remote_keys_decoder"
    /\ pc = "decode"
    /\ code' = decode_nec(trans)
    /\ arrived' = IF IsNotNone(code') THEN Append(arrived, code') ELSE arrived
    /\ pc' = "check"
    /\ UNCHANGED <<script, sent, trans, out, learned>>
    /\ UNCHANGED <<table, led, ticks, cap, obs>>

\* `if not code: continue`, then the duplicate test and the binding
KD_Learn ==
    /\ script = "remote_keys_decoder"
    /\ pc = "check"
    /\ IF Falsy(code)
       THEN /\ pc' = "capture"
            /\ UNCHANGED <<learned, out, obs>>
       ELSE /\ IF NotLearned(code, learned)
               THEN LET btn == EXPECTED_BUTTONS[Len(learned) + 1]
                    IN  /\ learned' = DictSet(learned, btn, code)
                        /\ out' = Append(out, Line("Learned", btn, code))
                        /\ obs' = [obs EXCEPT !.prev = obs.base]
               ELSE UNCHANGED <<learned, out, obs>>
            /\ pc' = "sleep"
    /\ UNCHANGED <<script, sent, trans, code, arrived>>
    /\ UNCHANGED <<table, led, ticks, cap>>

\* time.sleep_ms(500)
KD_Sleep ==
    /\ script = "remote_keys_decoder"
    /\ pc = "sleep"
    /\ Pass(LEARN_SLEEP_MS * 1000)
    /\ pc' = "capture"
    /\ UNCHANGED <<script, sent, trans, code, out, learned, arrived>>
    /\ UNCHANGED <<table, led, cap>>

----------------------------------------------------------------------------
(* The decoders as functions of a segment list: `script` names the         *)
(* function that is called, on any list of Params (lists that              *)
(* capture_transitions cannot return included).                            *)

\* the segment list of every burst of Params
BurstOf == [p \in Params |-> Burst(p)]

Call_decode_nec ==
    /\ script = "decode_nec"
    /\ pc = "call"
    /\ code' = decode_nec(trans)
    /\ pc' = "check"
    /\ UNCHANGED <<script, sent, trans, out, learned, arrived>>
    /\ UNCHANGED <<table, led, ticks, cap, obs>>

Call_decode_nec_from_transitions ==
    /\ script = "decode_nec_from_transitions"
    /\ pc = "call"
    /\ code' = decode_nec_from_transitions(trans)
    /\ pc' = "check"
    /\ UNCHANGED <<script, sent, trans, out, learned, arrived>>
    /\ UNCHANGED <<table, led, ticks, cap, obs>>

----------------------------------------------------------------------------
(* IR_WS2812.py: the remote drives an 8x8 WS2812 matrix.  `led` holds the  *)
(* NeoPixel buffer np, what the last np.write() put on the matrix, the     *)
(* colour entered at start-up, the step of radial_fade, and the label of   *)
(* the last button the loop resolved (a history field).                    *)

WIDTH == 8

HEIGHT == 8

NUM_LEDS == WIDTH * HEIGHT

\* the indices of np
Pixels == 0..(NUM_LEDS - 1)

WHITE == <<255, 255, 255>>

ORANGE == <<255, 165, 0>>

OFF == <<0, 0, 0>>

\* BRIGHTNESS = 0.2, as numerator and denominator
BRIGHTNESS == <<1, 5>>

\* the 8x8 grids, row by row
PATTERNS ==
    ("0" :> << <<0, 1, 1, 1, 1, 1, 0, 0>>,
              <<1, 1, 0, 0, 0, 1, 1, 0>>,
              <<1, 1, 0, 0, 0, 1, 1, 0>>,
              <<1, 1, 0, 0, 0, 1, 1, 0>>,
              <<1, 1, 0, 0, 0, 1, 1, 0>>,
              <<1, 1, 0, 0, 0, 1, 1, 0>>,
              <<0, 1, 1, 1, 1, 1, 0, 0>>,
              <<0, 0, 0, 0, 0, 0, 0, 0>> >>) @@
    ("1" :> << <<0, 0, 0, 1, 1, 0, 0, 0>>,
              <<0, 0, 1, 1, 1, 0, 0, 0>>,
              <<0, 0, 0, 1, 1, 0, 0, 0>>,
              <<0, 0, 0, 1, 1, 0, 0, 0>>,
              <<0, 0, 0, 1, 1, 0, 0, 0>>,
              <<0, 0, 0, 1, 1, 0, 0, 0>>,
              <<0, 1, 1, 1, 1, 1, 1, 0>>,
              <<0, 0, 0, 0, 0, 0, 0, 0>> >>) @@
    ("2" :> << <<0, 1, 1, 1, 1, 1, 0, 0>>,
              <<1, 1, 0, 0, 0, 1, 1, 0>>,
              <<0, 0, 0, 0, 0, 1, 1, 0>>,
              <<0, 0, 0, 0, 1, 1, 0, 0>>,
              <<0, 0, 1, 1, 0, 0, 0, 0>>,
              <<0, 1, 1, 0, 0, 0, 0, 0>>,
              <<1, 1, 1, 1, 1, 1, 1, 0>>,
              <<0, 0, 0, 0, 0, 0, 0, 0>> >>) @@
    ("3" :> << <<0, 1, 1, 1, 1, 1, 0, 0>>,
              <<1, 1, 0, 0, 0, 1, 1, 0>>,
              <<0, 0, 0, 0, 0, 1, 1, 0>>,
              <<0, 0, 1, 1, 1, 1, 0, 0>>,
              <<0, 0, 0, 0, 0, 1, 1, 0>>,
              <<1, 1, 0, 0, 0, 1, 1, 0>>,
              <<0, 1, 1, 1, 1, 1, 0, 0>>,
              <<0, 0, 0, 0, 0, 0, 0, 0>> >>) @@
    ("4" :> << <<0, 0, 0, 0, 1, 1, 0, 0>>,
              <<0, 0, 0, 1, 1, 1, 0, 0>>,
              <<0, 0, 1, 0, 1, 1, 0, 0>>,
              <<0, 1, 0, 0, 1, 1, 0, 0>>,
              <<1, 1, 1, 1, 1, 1, 1, 0>>,
              <<0, 0, 0, 0, 1, 1, 0, 0>>,
              <<0, 0, 0, 0, 1, 1, 0, 0>>,
              <<0, 0, 0, 0, 0, 0, 0, 0>> >>) @@
    ("5" :> << <<1, 1, 1, 1, 1, 1, 1, 0>>,
              <<1, 1, 0, 0, 0, 0, 0, 0>>,
              <<1, 1, 1, 1, 1, 1, 0, 0>>,
              <<0, 0, 0, 0, 0, 1, 1, 0>>,
              <<0, 0, 0, 0, 0, 1, 1, 0>>,
              <<1, 1, 0, 0, 0, 1, 1, 0>>,
              <<0, 1, 1, 1, 1, 1, 0, 0>>,
              <<0, 0, 0, 0, 0, 0, 0, 0>> >>) @@
    ("6" :> << <<0, 0, 1, 1, 1, 1, 0, 0>>,
              <<0, 1, 1, 0, 0, 0, 0, 0>>,
              <<1, 1, 0, 0, 0, 0, 0, 0>>,
              <<1, 1, 1, 1, 1, 1, 0, 0>>,
              <<1, 1, 0, 0, 0, 1, 1, 0>>,
              <<1, 1, 0, 0, 0, 1, 1, 0>>,
              <<0, 1, 1, 1, 1, 1, 0, 0>>,
              <<0, 0, 0, 0, 0, 0, 0, 0>> >>) @@
    ("7" :> << <<1, 1, 1, 1, 1, 1, 1, 0>>,
              <<0, 0, 0, 0, 0, 1, 1, 0>>,
              <<0, 0, 0, 0, 1, 1, 0, 0>>,
              <<0, 0, 0, 1, 1, 0, 0, 0>>,
              <<0, 0, 1, 1, 0, 0, 0, 0>>,
              <<0, 0, 1, 1, 0, 0, 0, 0>>,
              <<0, 0, 1, 1, 0, 0, 0, 0>>,
              <<0, 0, 0, 0, 0, 0, 0, 0>> >>) @@
    ("8" :> << <<0, 1, 1, 1, 1, 1, 0, 0>>,
              <<1, 1, 0, 0, 0, 1, 1, 0>>,
              <<1, 1, 0, 0, 0, 1, 1, 0>>,
              <<0, 1, 1, 1, 1, 1, 0, 0>>,
              <<1, 1, 0, 0, 0, 1, 1, 0>>,
              <<1, 1, 0, 0, 0, 1, 1, 0>>,
              <<0, 1, 1, 1, 1, 1, 0, 0>>,
              <<0, 0, 0, 0, 0, 0, 0, 0>> >>) @@
    ("9" :> << <<0, 1, 1, 1, 1, 1, 0, 0>>,
              <<1, 1, 0, 0, 0, 1, 1, 0>>,
              <<1, 1, 0, 0, 0, 1, 1, 0>>,
              <<0, 1, 1, 1, 1, 1, 1, 0>>,
              <<0, 0, 0, 0, 0, 1, 1, 0>>,
              <<0, 0, 0, 0, 1, 1, 0, 0>>,
              <<0, 1, 1, 1, 1, 0, 0, 0>>,
              <<0, 0, 0, 0, 0, 0, 0, 0>> >>) @@
    ("left" :> << <<0, 0, 0, 1, 0, 0, 0, 0>>,
                 <<0, 0, 1, 1, 0, 0, 0, 0>>,
                 <<0, 1, 1, 1, 0, 0, 0, 0>>,
                 <<1, 1, 1, 1, 1, 1, 1, 1>>,
                 <<1, 1, 1, 1, 1, 1, 1, 1>>,
                 <<0, 1, 1, 1, 0, 0, 0, 0>>,
                 <<0, 0, 1, 1, 0, 0, 0, 0>>,
                 <<0, 0, 0, 1, 0, 0, 0, 0>> >>) @@
    ("right" :> << <<0, 0, 0, 0, 1, 0, 0, 0>>,
                  <<0, 0, 0, 0, 1, 1, 0, 0>>,
                  <<0, 0, 0, 0, 1, 1, 1, 0>>,
                  <<1, 1, 1, 1, 1, 1, 1, 1>>,
                  <<1, 1, 1, 1, 1, 1, 1, 1>>,
                  <<0, 0, 0, 0, 1, 1, 1, 0>>,
                  <<0, 0, 0, 0, 1, 1, 0, 0>>,
                  <<0, 0, 0, 0, 1, 0, 0, 0>> >>) @@
    ("up" :> << <<0, 0, 0, 1, 1, 0, 0, 0>>,
               <<0, 0, 1, 1, 1, 1, 0, 0>>,
               <<0, 1, 1, 1, 1, 1, 1, 0>>,
               <<1, 1, 0, 1, 1, 0, 1, 1>>,
               <<0, 0, 0, 1, 1, 0, 0, 0>>,
               <<0, 0, 0, 1, 1, 0, 0, 0>>,
               <<0, 0, 0, 1, 1, 0, 0, 0>>,
               <<0, 0, 0, 1, 1, 0, 0, 0>> >>) @@
    ("down" :> << <<0, 0, 0, 1, 1, 0, 0, 0>>,
                 <<0, 0, 0, 1, 1, 0, 0, 0>>,
                 <<0, 0, 0, 1, 1, 0, 0, 0>>,
                 <<0, 0, 0, 1, 1, 0, 0, 0>>,
                 <<1, 1, 0, 1, 1, 0, 1, 1>>,
                 <<0, 1, 1, 1, 1, 1, 1, 0>>,
                 <<0, 0, 1, 1, 1, 1, 0, 0>>,
                 <<0, 0, 0, 1, 1, 0, 0, 0>> >>) @@
    ("stop" :> << <<0, 0, 1, 1, 1, 1, 0, 0>>,
                 <<0, 1, 1, 1, 1, 1, 1, 0>>,
                 <<1, 1, 1, 1, 1, 1, 1, 1>>,
                 <<1, 1, 1, 1, 1, 1, 1, 1>>,
                 <<1, 1, 1, 1, 1, 1, 1, 1>>,
                 <<1, 1, 1, 1, 1, 1, 1, 1>>,
                 <<0, 1, 1, 1, 1, 1, 1, 0>>,
                 <<0, 0, 1, 1, 1, 1, 0, 0>> >>) @@
    ("star" :> << <<0, 0, 0, 1, 1, 0, 0, 0>>,
                 <<0, 0, 0, 1, 1, 0, 0, 0>>,
                 <<1, 0, 1, 1, 1, 1, 0, 1>>,
                 <<0, 1, 1, 1, 1, 1, 1, 0>>,
                 <<0, 0, 1, 1, 1, 1, 0, 0>>,
                 <<0, 1, 1, 0, 0, 1, 1, 0>>,
                 <<1, 1, 0, 0, 0, 0, 1, 1>>,
                 <<1, 0, 0, 0, 0, 0, 0, 1>> >>) @@
    ("hash" :> << <<0, 1, 0, 0, 1, 0, 0, 0>>,
                 <<0, 1, 0, 0, 1, 0, 0, 0>>,
                 <<1, 1, 1, 1, 1, 1, 1, 0>>,
                 <<0, 1, 0, 0, 1, 0, 0, 0>>,
                 <<1, 1, 1, 1, 1, 1, 1, 0>>,
                 <<0, 1, 0, 0, 1, 0, 0, 0>>,
                 <<0, 1, 0, 0, 1, 0, 0, 0>>,
                 <<0, 0, 0, 0, 0, 0, 0, 0>> >>)

\* mutant: the labels of ir_detect_keys.py ("*", "#", "UP", ..., "OK")
WS_keymap_detect == keymap

\* the keymap of IR_WS2812.py
WS_keymap == {
    [code |-> Int32(255, 39015), label |-> "0"],          \* 0xFF9867
    [code |-> Int32(255, 41565), label |-> "1"],          \* 0xFFA25D
    [code |-> Int32(255, 25245), label |-> "2"],          \* 0xFF629D
    [code |-> Int32(255, 57885), label |-> "3"],          \* 0xFFE21D
    [code |-> Int32(255, 8925), label |-> "4"],           \* 0xFF22DD
    [code |-> Int32(255, 765), label |-> "5"],            \* 0xFF02FD
    [code |-> Int32(255, 49725), label |-> "6"],          \* 0xFFC23D
    [code |-> Int32(255, 57375), label |-> "7"],          \* 0xFFE01F
    [code |-> Int32(255, 43095), label |-> "8"],          \* 0xFFA857
    [code |-> Int32(255, 36975), label |-> "9"],          \* 0xFF906F
    [code |-> Int32(255, 26775), label |-> "star"],       \* 0xFF6897
    [code |-> Int32(255, 45135), label |-> "hash"],       \* 0xFFB04F
    [code |-> Int32(255, 6375), label |-> "up"],          \* 0xFF18E7
    [code |-> Int32(255, 19125), label |-> "down"],       \* 0xFF4AB5
    [code |-> Int32(255, 4335), label |-> "left"],        \* 0xFF10EF
    [code |-> Int32(255, 23205), label |-> "right"],      \* 0xFF5AA5
    [code |-> Int32(255, 14535), label |-> "stop"] }      \* 0xFF38C7

\* what parse_color returned at start-up; any triple of 0..255 can be entered
DisplayColors == {WHITE, ORANGE, OFF}

\* every pixel (0, 0, 0)
Blank == [i \in Pixels |-> OFF]

\* nothing lit, no fade in progress, no button resolved yet
NoLed ==
    [np |-> Blank, matrix |-> Blank, display_color |-> WHITE, s |-> 0,
     last |-> ""]

\* int(c * BRIGHTNESS) for each component
apply_brightness(color) ==
    [k \in 1..3 |-> (color[k] * BRIGHTNESS[1]) \div BRIGHTNESS[2]]

\* np.write()
np_write(l) == [l EXCEPT !.matrix = l.np]

clear(l) == np_write([l EXCEPT !.np = Blank])

\* the buffer display_pattern leaves: the scaled colour where the grid has
\* a 1 (index row * 8 + col), OFF elsewhere
Rendered(pattern, color) ==
    [i \in Pixels |->
        IF pattern[(i \div 8) + 1][(i % 8) + 1] = 1
        THEN apply_brightness(color) ELSE OFF]

display_pattern(l, pattern, color) ==
    np_write([clear(l) EXCEPT !.np = Rendered(pattern, color)])

\* `char in PATTERNS`
HasPattern(char) == char \in DOMAIN PATTERNS

\* show_char: the matrix, and the lines it prints
show_char(l, char, color) ==
    IF HasPattern(char) THEN display_pattern(l, PATTERNS[char], color) ELSE l

show_char_lines(char, c) ==
    IF HasPattern(char) THEN << Line("Displaying", char, c) >>
    ELSE << Line("Character not found", char, c), Line("Available", "", c) >>

xy_to_i(x, y) ==
    IF y % 2 = 0 THEN y * WIDTH + x ELSE y * WIDTH + (WIDTH - 1 - x)

\* the (x, y) that radial_fade pairs with np[i]
XYOf ==
    [i \in Pixels |->
        CHOOSE q \in (0..(WIDTH - 1)) \X (0..(HEIGHT - 1)) :
            xy_to_i(q[1], q[2]) = i]

\* (2d)^2 for the distance d of (x, y) from the centre ((WIDTH - 1) / 2,
\* (HEIGHT - 1) / 2), and (2 max_dist)^2
Dist2 ==
    [i \in Pixels |->
        (2 * XYOf[i][1] - (WIDTH - 1)) ^ 2 + (2 * XYOf[i][2] - (HEIGHT - 1)) ^ 2]

MaxDist2 == (WIDTH - 1) ^ 2 + (HEIGHT - 1) ^ 2

\* radial_fade(steps=30, delay=0.05)
FADE_STEPS == 30

FADE_DELAY_US == 50000

\* v * brightness - k in step s for a pixel at squared distance n, where
\* brightness = 1 - (s / steps) * (1 + sqrt(n / MaxDist2)): the value is
\* (Rest - v * s * sqrt(n / MaxDist2)) / steps
Rest(v, s, k) == v * (FADE_STEPS - s) - FADE_STEPS * k

SetMax(S) == CHOOSE x \in S : \A y \in S : y <= x

\* k <= v * brightness, in exact arithmetic
AtLeast(v, s, n, k) ==
    /\ Rest(v, s, k) >= 0
    /\ (v * s) ^ 2 * n <= MaxDist2 * Rest(v, s, k) ^ 2

\* int(v * max(0, brightness)), in exact arithmetic
Scaled(v, s, n) ==
    LET ks == { k \in 0..v : AtLeast(v, s, n, k) }
    IN  IF ks = {} THEN 0 ELSE SetMax(ks)

\* v * brightness is a whole number above 0 reached through rounded floats
\* (s / steps and the ratio are not exact): the product can come out just
\* below it, and int() then yields one less
Tie(v, s, n) ==
    LET k == Scaled(v, s, n)
    IN  /\ s > 0
        /\ k > 0
        /\ (v * s) ^ 2 * n = MaxDist2 * Rest(v, s, k) ^ 2

\* `if r or g or b`
HasContent(px) == px # OFF

\* the (value, distance) pairs of step s whose product is such a tie
Ties(buf, s) ==
    { vn \in { <<buf[i][k], Dist2[i]>> : i \in Pixels, k \in 1..3 } :
        Tie(vn[1], s, vn[2]) }

\* one pass of the fade loop over the buffer; `down` are the ties that the
\* floats of the board round down
Faded(buf, s, down) ==
    [i \in Pixels |->
        IF HasContent(buf[i])
        THEN [k \in 1..3 |->
                Scaled(buf[i][k], s, Dist2[i])
                  - (IF <<buf[i][k], Dist2[i]>> \in down THEN 1 ELSE 0)]
        ELSE buf[i]]

\* mutant: the loop fades after the button labelled "OK"
IsStop_ok(label) == label = "OK"

\* `keymap[code] == "stop"`
IsStop(label) == label = "stop"

\* the frames shown to the display loop: the keys "0", "star" and "stop",
\* a code without key, 0, the repeat code, and a frame cut after four pairs
DisplayParams ==
    { Nominal(c) : c \in { Int32(255, 39015), Int32(255, 26775),
                           Int32(255, 14535), Int32(4660, 22136),
                           ZERO_CODE, REPEAT_CODE } }
    \cup { [Nominal(Int32(255, 39015)) EXCEPT !.len = 10] }

WS_Capture ==
    /\ script = "IR_WS2812"
    /\ pc = "capture"
    /\ \E p \in DisplayParams :
          /\ trans' = Captured(p)
          /\ sent' = p
    /\ out' = <<>>
    /\ pc' = "decode"
    /\ UNCHANGED <<script, code, learned, arrived>>
    /\ UNCHANGED <<table, led, ticks, cap, obs>>

WS_Decode ==
    /\ script = "IR_WS2812"
    /\ pc = "decode"
    /\ code' = decode_nec(trans)
    /\ pc' = "check"
    /\ UNCHANGED <<script, sent, trans, out, learned, arrived>>
    /\ UNCHANGED <<table, led, ticks, cap, obs>>

\* the loop body after the decoding, up to the call of stop()
WS_Dispatch ==
    /\ script = "IR_WS2812"
    /\ pc = "check"
    /\ IF Falsy(code)
       THEN /\ pc' = "capture"
            /\ UNCHANGED <<out, led>>
       ELSE IF InKeymap(code)
       THEN /\ out' = out \o << Line("Button pressed", KeymapGet(code), code) >>
                          \o show_char_lines(KeymapGet(code), code)
            /\ led' = [show_char(led, KeymapGet(code), led.display_color)
                         EXCEPT !.last = KeymapGet(code),
                                !.s = IF IsStop(KeymapGet(code)) THEN 0 ELSE @]
            /\ pc' = IF IsStop(KeymapGet(code)) THEN "fade" ELSE "sleep"
       ELSE /\ out' = Append(out, IF code = REPEAT_CODE
                                  THEN Line("(repeat)", "", code)
                                  ELSE Line("Unknown code", "", code))
            /\ led' = led
            /\ pc' = "sleep"
    /\ UNCHANGED <<script, sent, trans, code, learned, arrived>>
    /\ UNCHANGED <<table, ticks, cap, obs>>

\* radial_fade: one step of `for s in range(steps)`
WS_FadeStep ==
    /\ script = "IR_WS2812"
    /\ pc = "fade"
    /\ led.s < FADE_STEPS
    /\ \E down \in SUBSET Ties(led.np, led.s) :
          led' = np_write([led EXCEPT !.np = Faded(led.np, led.s, down),
                                      !.s = @ + 1])
    /\ Pass(FADE_DELAY_US)
    /\ UNCHANGED <<script, pc, sent, trans, code, out, learned, arrived>>
    /\ UNCHANGED <<table, cap>>

\* radial_fade after its loop ("Ensure fully black"), then clear() of stop()
WS_FadeEnd ==
    /\ script = "IR_WS2812"
    /\ pc = "fade"
    /\ led.s = FADE_STEPS
    /\ led' = clear(np_write([led EXCEPT !.np = Blank]))
    /\ pc' = "sleep"
    /\ UNCHANGED <<script, sent, trans, code, out, learned, arrived>>
    /\ UNCHANGED <<table, ticks, cap, obs>>

WS_Sleep ==
    /\ script = "IR_WS2812"
    /\ pc = "sleep"
    /\ Pass(DETECT_SLEEP_MS * 1000)
    /\ pc' = "capture"
    /\ UNCHANGED <<script, sent, trans, code, out, learned, arrived>>
    /\ UNCHANGED <<table, led, cap>>

----------------------------------------------------------------------------
(* Specifications                                                          *)

InitVars ==
    /\ pc = "capture"
    /\ sent = Nominal(ZERO_CODE)
    /\ trans = <<>>
    /\ code = None
    /\ out = <<>>
    /\ learned = <<>>
    /\ arrived = <<>>
    /\ table = keymap
    /\ led = NoLed
    /\ ticks = 0
    /\ cap = NoCall
    /\ obs = NoObs

\* the reporting scripts
Init ==
    /\ script \in {"ir_detect_keys", "simple_decoder"}
    /\ InitVars

Next ==
    \/ DK_Capture
    \/ DK_Decode
    \/ DK_Dispatch
    \/ DK_Sleep
    \/ SD_Capture
    \/ SD_Print
    \/ SD_Decode
    \/ SD_Dispatch

Spec == Init /\ [][Next]_vars

(***************************************************************************)
(* The detection loop of ir_detect_keys.py with the keymap as an input:    *)
(* the keymap of the source, or that keymap with the value learned for     *)
(* "OK" being 0xFFFFFFFF (a table printed by remote_keys_decoder.py).      *)
(***************************************************************************)
Keymaps ==
    { keymap,
      { e \in keymap : e.label # "OK" } \cup {[code |-> REPEAT_CODE, label |-> "OK"]} }

InitKeymaps ==
    /\ script = "ir_detect_keys"
    /\ pc = "capture"
    /\ sent = Nominal(ZERO_CODE)
    /\ trans = <<>>
    /\ code = None
    /\ out = <<>>
    /\ learned = <<>>
    /\ arrived = <<>>
    /\ table \in Keymaps
    /\ led = NoLed
    /\ ticks = 0
    /\ cap = NoCall
    /\ obs = NoObs

NextKeymaps ==
    \/ DK_Capture
    \/ DK_Decode
    \/ DK_Dispatch
    \/ DK_Sleep

SpecKeymaps == InitKeymaps /\ [][NextKeymaps]_vars

\* the learning script
InitLearn ==
    /\ script = "remote_keys_decoder"
    /\ InitVars

NextLearn ==
    \/ KD_Capture
    \/ KD_Exit
    \/ KD_Decode
    \/ KD_Learn
    \/ KD_Sleep

SpecLearn == InitLearn /\ [][NextLearn]_vars

(***************************************************************************)
(* capture_transitions statement by statement, for the copy the running    *)
(* script holds (ir_detect_keys.py, the same in remote_ir_sensor_handler,  *)
(* remote_keys_decoder and IR_WS2812; simple_decoder.py stamps twice).     *)
(* Every ir.value() read returns either level.  The clock is the wrapping  *)
(* counter of time.ticks_us(); a sleep_us(30) lasts 30 us or more, and a   *)
(* long sleep stands for the run of polls in which the pin did not change. *)
(***************************************************************************)

\* the poll interval of time.sleep_us(30)
POLL_US == 30

\* how many short sleeps one call may take before only long ones remain
MaxPolls == 3

\* microseconds a sleep may last
SleepDelays == {POLL_US, 560, 99996, 100000}

\* microseconds that may pass between two consecutive clock reads
StmtDelays == {0, 7}

\* the clock at the call: just after a wrap, and so that the window wraps
StartTicks ==
    {0, TICKS_PERIOD - 200000, TICKS_PERIOD - 150000, TICKS_PERIOD - 1}

\* the clock moves on by d microseconds
Elapse(d) ==
    /\ ticks' = (ticks + d) % TICKS_PERIOD
    /\ obs' = Aged(obs, d)

\* the time between two clock reads; next to the frame of a transmitter it
\* is left out
Stmts == IF obs.air = "free" THEN StmtDelays ELSE {0}

\* mutant: the clock stands still
Sleeps_zero == {0}

\* a sleep lasts 30 us or more; with a transmitter the polls that read no
\* change are passed over up to the next edge or the end of the window
Sleeps ==
    IF obs.air = "free"
    THEN { d \in SleepDelays : d >= POLL_US /\ (obs.polls < MaxPolls \/ d > 1000) }
    ELSE LET left == MAX_WINDOW_MS * 1000 - obs.base
             edge == IF obs.air = "frame"
                     THEN SetMin(EdgesAfter(obs.frame, obs.tx)) - obs.tx ELSE left
             d    == IF edge < left THEN edge ELSE left
         IN  { IF d < POLL_US THEN POLL_US ELSE d }

\* mutant: the idle wait gives up after one sample
WaitOver_any(v) == TRUE

\* the idle wait ends: `ir.value() == 1` is false
WaitOver(v) == ~(v = 1)

\* `while ir.value() == 1: pass`
CT_Wait ==
    /\ cap.pc = "wait"
    /\ \E v \in PinReads :
          /\ obs' = [Sampled(obs, v) EXCEPT
                       !.sawHigh = @ \/ v = 1,
                       !.low = @ \/ v = 0,
                       !.src = IF WaitOver(v) /\ obs.air = "frame"
                               THEN obs.frame.c ELSE @]
          /\ cap' = IF WaitOver(v) THEN [cap EXCEPT !.pc = "start"] ELSE cap
    /\ UNCHANGED <<script, pc, sent, trans, code, out, learned, arrived, table, led, ticks>>

\* mutant: the list of the call before is carried on
EmptyList_stale == trans

\* `transitions = []`
EmptyList == <<>>

\* transitions = []; last = 0; last_t = ticks_us(); deadline = ticks_add(...)
CT_Start ==
    /\ cap.pc = "start"
    /\ cap' = [cap EXCEPT !.transitions = EmptyList,
                          !.last = 0,
                          !.last_t = ticks,
                          !.deadline = ticks_add(ticks, MAX_WINDOW_MS * 1000),
                          !.pc = IF script = "simple_decoder" THEN "restamp" ELSE "test"]
    /\ obs' = [obs EXCEPT !.base = 0, !.since = 0, !.seg = 0]
    /\ UNCHANGED <<script, pc, sent, trans, code, out, learned, arrived, table, led, ticks>>

\* simple_decoder.py only: `last = 0; last_t = time.ticks_us()` once more
CT_Restamp ==
    /\ cap.pc = "restamp"
    /\ \E d \in Stmts :
          /\ ticks' = (ticks + d) % TICKS_PERIOD
          /\ obs' = [Aged(obs, d) EXCEPT !.since = 0, !.seg = 0]
    /\ cap' = [cap EXCEPT !.last = 0, !.last_t = ticks', !.pc = "test"]
    /\ UNCHANGED <<script, pc, sent, trans, code, out, learned, arrived, table, led>>

\* mutant: the window is never enforced
InWindow_always(deadline, now) == TRUE

\* `time.ticks_diff(deadline, time.ticks_us()) > 0`
InWindow(deadline, now) == ticks_diff(deadline, now) > 0

\* `while time.ticks_diff(deadline, time.ticks_us()) > 0`
CT_Test ==
    /\ cap.pc = "test"
    /\ cap' = [cap EXCEPT !.pc = IF InWindow(cap.deadline, ticks)
                                 THEN "poll" ELSE "finish"]
    /\ UNCHANGED <<script, pc, sent, trans, code, out, learned, arrived, table, led, ticks, obs>>

\* mutant: the new level recorded instead of the previous one
Segment_new(last, v, dur) == <<v, dur>>

\* the tuple `(last, dur)`
Segment(last, v, dur) == <<last, dur>>

\* v = ir.value() and the recording of a change
CT_Poll ==
    /\ cap.pc = "poll"
    /\ \E v \in PinReads :
          /\ IF v # cap.last
             THEN LET now == ticks
                      dur == ticks_diff(now, cap.last_t)
                  IN  cap' = [cap EXCEPT
                                !.transitions = Append(@, Segment(cap.last, v, dur)),
                                !.last = v,
                                !.last_t = now,
                                !.pc = "sleep"]
             ELSE cap' = [cap EXCEPT !.pc = "sleep"]
          /\ obs' = [Sampled(obs, v) EXCEPT
                       !.reads = IF obs.air = "free" THEN Append(@, v) ELSE @,
                       !.seg = IF v # cap.last THEN 0 ELSE @]
    /\ UNCHANGED <<script, pc, sent, trans, code, out, learned, arrived, table, led, ticks>>

\* time.sleep_us(30)
CT_SleepUs ==
    /\ cap.pc = "sleep"
    /\ \E d \in Sleeps :
          /\ ticks' = (ticks + d) % TICKS_PERIOD
          /\ obs' = [Aged(obs, d) EXCEPT !.polls = IF @ < MaxPolls THEN @ + 1 ELSE @]
    /\ cap' = [cap EXCEPT !.pc = "test"]
    /\ UNCHANGED <<script, pc, sent, trans, code, out, learned, arrived, table, led>>

\* mutant: the segment in progress is dropped at the deadline
Closing_none(transitions, last, dur) == transitions

\* `transitions.append((last, time.ticks_diff(now, last_t)))`
Closing(transitions, last, dur) == Append(transitions, <<last, dur>>)

\* the closing segment and the return to the loop
CT_Return ==
    /\ cap.pc = "finish"
    /\ \E d \in Stmts : Elapse(d)
    /\ LET now == ticks'
           dur == ticks_diff(now, cap.last_t)
       IN  /\ cap' = [cap EXCEPT !.transitions = Closing(@, cap.last, dur),
                                 !.pc = "returned"]
           /\ trans' = cap'.transitions
    /\ pc' = IF script = "simple_decoder" THEN "print" ELSE "decode"
    /\ UNCHANGED <<script, sent, code, out, learned, arrived, table, led>>

\* one call of capture_transitions by either kind of script
InitCapture ==
    /\ script \in {"ir_detect_keys", "simple_decoder"}
    /\ pc = "capture"
    /\ sent = Nominal(ZERO_CODE)
    /\ trans = <<>>
    /\ code = None
    /\ out = <<>>
    /\ learned = <<>>
    /\ arrived = <<>>
    /\ table = keymap
    /\ led = NoLed
    /\ ticks \in StartTicks
    /\ cap = [NoCall EXCEPT !.pc = "wait"]
    /\ obs = NoObs

NextCapture ==
    \/ CT_Wait
    \/ CT_Start
    \/ CT_Restamp
    \/ CT_Test
    \/ CT_Poll
    \/ CT_SleepUs
    \/ CT_Return

SpecCapture == InitCapture /\ [][NextCapture]_vars

(***************************************************************************)
(* The learning loop running for ever: bursts keep arriving, and `arrived` *)
(* keeps each decoded code once, in order of first arrival.  The script is *)
(* a single thread that only waits inside capture_transitions, so a step   *)
(* that can be taken is taken.                                             *)
(***************************************************************************)
KD_CaptureNext ==
    /\ script = "remote_keys_decoder"
    /\ pc = "capture"
    /\ Listening(learned)
    /\ \E p \in LearnParams : capture_transitions(p)
    /\ out' = <<>>
    /\ pc' = "decode"
    /\ UNCHANGED <<script, code, learned, arrived>>
    /\ UNCHANGED <<table, led, ticks, cap, obs>>

KD_DecodeNext ==
    /\ script = "remote_keys_decoder"
    /\ pc = "decode"
    /\ code' = decode_nec(trans)
    /\ arrived' = IF IsNotNone(code') /\ code' \notin { arrived[i] : i \in DOMAIN arrived }
                  THEN Append(arrived, code') ELSE arrived
    /\ pc' = "check"
    /\ UNCHANGED <<script, sent, trans, out, learned>>
    /\ UNCHANGED <<table, led, ticks, cap, obs>>

NextLearnFair ==
    \/ KD_CaptureNext
    \/ KD_Exit
    \/ KD_DecodeNext
    \/ KD_Learn
    \/ KD_Sleep

\* the decode step is taken: decoding always returns
Decoded == pc = "decode" /\ pc' = "check"

SpecLearnFair ==
    /\ InitLearn
    /\ [][NextLearnFair]_vars
    /\ WF_vars(KD_CaptureNext)
    /\ WF_vars(KD_Exit)
    /\ WF_pc(Decoded)
    /\ WF_vars(KD_Learn)
    /\ WF_vars(KD_Sleep)

(***************************************************************************)
(* The three kinds of loop on a pin driven by a transmitter.  A frame is   *)
(* put on the air while the script is in the idle wait (or, begun a little *)
(* earlier, is found in progress by the first sample) or while it sleeps   *)
(* after an event; the pin idles high when no frame is on the air.         *)
(***************************************************************************)
\* the frames put on the air and how long before the first sample.  The
\* learning loop is shown three codes as its idle wait watches; the other
\* loops are shown every frame as the wait watches, the frame of key "0"
\* begun before the wait, and that frame during the sleep after an event.
Key0 == Nominal(Int32(255, 39015))

Presses ==
    IF script = "remote_keys_decoder"
    THEN IF cap.pc = "wait"
         THEN { <<p, 0>> : p \in { q \in PipeParams : q.ll = 9000 /\ q.c # ZERO_CODE } }
         ELSE {}
    ELSE IF cap.pc = "wait"
         THEN { <<p, 0>> : p \in PipeParams }
              \cup (IF obs.sawHigh THEN {} ELSE { <<Key0, MidFrame>> })
         ELSE IF pc = "sleep" THEN { <<Key0, 0>> } ELSE {}

Press ==
    /\ obs.air = "idle"
    /\ \E e \in Presses :
          obs' = [obs EXCEPT !.air = "frame", !.frame = e[1], !.tx = e[2],
                             !.heard = FALSE]
    /\ IF cap.pc = "wait" THEN ticks' \in PipeTicks ELSE ticks' = ticks
    /\ UNCHANGED <<script, pc, sent, trans, code, out, learned, arrived, table, led, cap>>

\* mutant: the capture is started whatever the loop is doing
AtCapture_any(p) == TRUE

\* the loop is at `trans = capture_transitions()`
AtCapture(p) == p = "capture"

\* `trans = capture_transitions()`: the call
CT_Call ==
    /\ obs.air # "free"
    /\ AtCapture(pc)
    /\ cap.pc \in {"idle", "returned"}
    /\ script = "remote_keys_decoder" => Listening(learned)
    /\ cap' = [NoCall EXCEPT !.pc = "wait"]
    /\ obs' = [obs EXCEPT !.sawHigh = FALSE, !.low = FALSE, !.polls = 0,
                          !.reads = <<>>, !.src = None]
    /\ out' = <<>>
    /\ UNCHANGED <<script, pc, sent, trans, code, learned, arrived, table, led, ticks>>

InitPipe ==
    /\ script \in {"ir_detect_keys", "simple_decoder", "remote_keys_decoder"}
    /\ pc = "capture"
    /\ sent = Nominal(ZERO_CODE)
    /\ trans = <<>>
    /\ code = None
    /\ out = <<>>
    /\ learned = <<>>
    /\ arrived = <<>>
    /\ table = keymap
    /\ led = NoLed
    /\ ticks = 0
    /\ cap = NoCall
    /\ obs = [NoObs EXCEPT !.air = "idle"]

NextPipe ==
    \/ Press
    \/ CT_Call
    \/ CT_Wait
    \/ CT_Start
    \/ CT_Restamp
    \/ CT_Test
    \/ CT_Poll
    \/ CT_SleepUs
    \/ CT_Return
    \/ DK_Decode
    \/ DK_Dispatch
    \/ DK_Sleep
    \/ SD_Print
    \/ SD_Decode
    \/ SD_Dispatch
    \/ KD_Exit
    \/ KD_DecodeNext
    \/ KD_Learn
    \/ KD_Sleep

SpecPipe == InitPipe /\ [][NextPipe]_vars

\* a statement of the script other than a call of the decoder
Statement ==
    \/ CT_Call
    \/ CT_Wait
    \/ CT_Start
    \/ CT_Restamp
    \/ CT_Test
    \/ CT_Poll
    \/ CT_SleepUs
    \/ CT_Return
    \/ DK_Dispatch
    \/ DK_Sleep
    \/ SD_Print
    \/ SD_Dispatch
    \/ KD_Exit
    \/ KD_Learn
    \/ KD_Sleep

\* the script is a single thread: a statement that can run does run; no
\* assumption is made on the transmitter
SpecPipeFair ==
    /\ InitPipe
    /\ [][NextPipe]_vars
    /\ WF_vars(Statement)
    /\ WF_pc(Decoded)

\* one call of a decoder on one segment list
InitDecode ==
    /\ script \in {"decode_nec", "decode_nec_from_transitions"}
    /\ pc = "call"
    /\ \E p \in Params : sent = p /\ trans = BurstOf[p]
    /\ code = None
    /\ out = <<>>
    /\ learned = <<>>
    /\ arrived = <<>>
    /\ table = keymap
    /\ led = NoLed
    /\ ticks = 0
    /\ cap = NoCall
    /\ obs = NoObs

NextDecode ==
    \/ Call_decode_nec
    \/ Call_decode_nec_from_transitions

SpecDecode == InitDecode /\ [][NextDecode]_vars

\* the display loop of IR_WS2812.py, after clear() and parse_color
InitDisplay ==
    /\ script = "IR_WS2812"
    /\ pc = "capture"
    /\ sent = Nominal(ZERO_CODE)
    /\ trans = <<>>
    /\ code = None
    /\ out = <<>>
    /\ learned = <<>>
    /\ arrived = <<>>
    /\ table = WS_keymap
    /\ \E c \in DisplayColors : led = [NoLed EXCEPT !.display_color = c]
    /\ ticks = 0
    /\ cap = NoCall
    /\ obs = NoObs

NextDisplay ==
    \/ WS_Capture
    \/ WS_Decode
    \/ WS_Dispatch
    \/ WS_FadeStep
    \/ WS_FadeEnd
    \/ WS_Sleep

SpecDisplay == InitDisplay /\ [][NextDisplay]_vars

----------------------------------------------------------------------------
(* Properties                                                              *)

\* the burst on the pin is a leader and 32 well-formed pairs, nothing added
\* and nothing cut
WholeFrame == sent.ins = 0 /\ sent.len >= FullLen /\ Len(trans) = FullLen

\* number of (low, high) pairs after the leader; such pairs cannot overlap
PairsIn(t) ==
    Cardinality({ j \in 3..(Len(t) - 1) : t[j][1] = 0 /\ t[j + 1][1] = 1 })

\* a leader every decoder copy accepts
LeaderInside(t) ==
    /\ Len(t) >= 2
    /\ t[1][1] = 0 /\ 7000 < t[1][2] /\ t[1][2] < 10000
    /\ t[2][1] = 1 /\ 3500 < t[2][2] /\ t[2][2] < 5000

\* sum of b[k] * 2^(last - k) for k in first..last
RECURSIVE WeightedSum(_, _, _)
WeightedSum(b, k, last) ==
    IF k > last THEN 0 ELSE b[k] * (2 ^ (last - k)) + WeightedSum(b, k + 1, last)

\* the bits the running script's pair walk collects from `trans`
Collected ==
    IF script \in {"simple_decoder", "decode_nec_from_transitions"}
    THEN SD_PairWalk(trans, 2, <<>>)
    ELSE PairWalk(trans, 2, <<>>)

\* C1: round trip.  A leader (low 9000, high 4500) followed by the 32 pairs
\* of a code c other than 0xFFFFFFFF, most significant bit first, space 560
\* for 0 and 1690 for 1, decodes to c itself (not None, not another value).
C1_RoundTrip ==
    (/\ pc = "check"
     /\ WholeFrame
     /\ sent.l0 = 0 /\ sent.ll = 9000 /\ sent.l1 = 1 /\ sent.lh = 4500
     /\ sent.s0 = 560 /\ sent.s1 = 1690
     /\ sent.c # REPEAT_CODE)
    => code = sent.c

C1_Witness ==
    /\ script = "decode_nec"
    /\ pc = "check"
    /\ WholeFrame
    /\ sent = Nominal(Int32(255, 39015))
    /\ trans[1] = <<0, 9000>> /\ trans[2] = <<1, 4500>>
    /\ code = Int32(255, 39015)

\* C2: leader validation as claimed.  In every decoder copy a whole frame
\* passes the leader check (decodes to a value) exactly when segment 0 is
\* low for 7000..10000 and segment 1 is high for 3500..5000, end points
\* included.
C2_LeaderInclusive ==
    (pc = "check" /\ WholeFrame)
    => (IsNotNone(code) <=>
          /\ trans[1][1] = 0 /\ 7000 <= trans[1][2] /\ trans[1][2] <= 10000
          /\ trans[2][1] = 1 /\ 3500 <= trans[2][2] /\ trans[2][2] <= 5000)

\* C3: bit classification.  In a decoded frame the k-th bit of the value is
\* 1 exactly when the space of the k-th pair is longer than 1200, whatever
\* the mark's duration; 1200 gives 0 and 1201 gives 1.
C3_BitThreshold ==
    (pc = "check" /\ IsNotNone(code) /\ WholeFrame)
    => \A k \in 1..NBITS :
          BitAt(code, k) = (IF trans[2 * k + 2][2] > 1200 THEN 1 ELSE 0)

C3_Witness ==
    /\ pc = "check"
    /\ IsNotNone(code)
    /\ WholeFrame
    /\ sent.mk = 9000
    /\ \E k \in 1..NBITS : trans[2 * k + 2][2] = 1200 /\ BitAt(code, k) = 0
    /\ \E k \in 1..NBITS : trans[2 * k + 2][2] = 1201 /\ BitAt(code, k) = 1

\* C4: most significant bit first.  A decoded value equals the sum of
\* b[k] * 2^(32 - k) over the 32 collected bits b[1..32] (upper and lower
\* 16 bits summed apart), and so lies in 0..2^32 - 1.
C4_MsbFirst ==
    (pc = "check" /\ IsNotNone(code))
    => LET b == Collected
       IN  /\ Len(b) = NBITS
           /\ code.hi = WeightedSum(b, 1, 16)
           /\ code.lo = WeightedSum(b, 17, NBITS)
           /\ code.hi \in 0..(Limb - 1)
           /\ code.lo \in 0..(Limb - 1)

C4_Witness ==
    /\ pc = "check"
    /\ code = Int32(32768, 0)
    /\ Collected[1] = 1
    /\ \A k \in 2..NBITS : Collected[k] = 0

\* C5: repeat detection as claimed.  Once a burst whose 32 bits are all 1
\* has been handled, the script has printed the repeat indicator and no
\* line that reports the value as a button, an unknown code or a decoded
\* code.
C5_RepeatNeverACode ==
    (pc \in {"sleep", "capture"} /\ code = REPEAT_CODE)
    => /\ \E i \in DOMAIN out : out[i].kind = "(repeat)"
       /\ \A i \in DOMAIN out :
             out[i].kind \notin
               {"Button pressed", "Unknown code", "Decoded NEC 32-bit code"}

\* C6: truncation.  A burst with a valid leader and fewer than 32 (low, high)
\* pairs after it decodes to None, and whenever a value is returned the
\* burst held at least 32 pairs.
C6_Truncation ==
    pc = "check"
    => /\ (LeaderInside(trans) /\ PairsIn(trans) < NBITS) => code = None
       /\ IsNotNone(code) => PairsIn(trans) >= NBITS

C6_Witness ==
    /\ pc = "check"
    /\ LeaderInside(trans)
    /\ Len(trans) = FullLen - 1
    /\ PairsIn(trans) = NBITS - 1
    /\ code = None

\* C7: tolerant realignment.  With one spurious (high, 50) segment between
\* two consecutive pairs of a frame, the decoder still returns the code of
\* the frame, for every one of the 31 places.
C7_Realignment ==
    (pc = "check" /\ sent.ins > 0)
    => /\ Len(trans) = FullLen + 1
       /\ trans[2 * sent.ins + 3] = <<1, 50>>
       /\ code = sent.c

C7_Witness ==
    /\ pc = "check"
    /\ sent.ins = 16
    /\ trans[2 * sent.ins + 2][1] = 1
    /\ trans[2 * sent.ins + 3] = <<1, 50>>
    /\ trans[2 * sent.ins + 4][1] = 0
    /\ code = Int32(255, 39015)

\* C8: every value but 0xFFFFFFFF is a candidate code, as claimed.  When an
\* iteration that decoded a value other than 0xFFFFFFFF is over, the script
\* has printed a line reporting that value.
C8_EveryCodeReported ==
    (pc = "capture" /\ IsNotNone(code) /\ code # REPEAT_CODE)
    => \E i \in DOMAIN out :
          /\ out[i].kind \in
               {"Button pressed", "Unknown code", "Decoded NEC 32-bit code"}
          /\ out[i].code = code

\* the codes of a sequence in order of first occurrence
RECURSIVE FirstOccurrences(_)
FirstOccurrences(q) ==
    IF q = <<>> THEN <<>>
    ELSE LET r == FirstOccurrences(SubSeq(q, 1, Len(q) - 1))
             x == q[Len(q)]
         IN  IF \E i \in DOMAIN r : r[i] = x THEN r ELSE Append(r, x)

\* C9: learning order as claimed.  Between iterations, for a history of
\* decoded codes without the repeat value, the i-th entry of `learned` binds
\* the i-th expected name to the i-th distinct code of the history.
C9_LearningOrder ==
    (pc \in {"capture", "done"} /\ \A i \in DOMAIN arrived : arrived[i] # REPEAT_CODE)
    => LET d == FirstOccurrences(arrived)
           n == IF Len(d) < Len(EXPECTED_BUTTONS) THEN Len(d)
                ELSE Len(EXPECTED_BUTTONS)
       IN  /\ Len(learned) = n
           /\ \A i \in 1..n :
                 learned[i] = [btn |-> EXPECTED_BUTTONS[i], code |-> d[i]]

\* no two keys of `learned` hold the same code
Injective(d) ==
    \A i, j \in DOMAIN d : d[i].code = d[j].code => i = j

\* every binding of d is a binding of e
Kept(d, e) ==
    \A i \in DOMAIN d : \E j \in DOMAIN e : e[j] = d[i]

\* C10: learning invariant.  `learned` never binds two names to one code,
\* and no step of the loop removes or changes a binding.
C10_InjectiveKept ==
    [](Injective(learned)) /\ [][Kept(learned, learned')]_vars

C10_Witness ==
    /\ Len(learned) = NumButtons
    /\ Len(arrived) > Len(learned)
    /\ \E i \in DOMAIN arrived : \E j \in DOMAIN arrived : i # j /\ arrived[i] = arrived[j]

\* C11: learning ignores Repeat, as claimed.  The value 0xFFFFFFFF is never
\* bound to an expected button, and after the check of a capture that
\* decoded to it nothing has been learned (no "Learned" line was printed).
C11_LearningIgnoresRepeat ==
    /\ REPEAT_CODE \notin DictValues(learned)
    /\ (pc = "sleep" /\ code = REPEAT_CODE) => out = <<>>

\* the name the next accepted code will be bound to
Pending(d) == EXPECTED_BUTTONS[Len(d) + 1]

\* C12: duplicate rejection.  The check of a capture whose code is already a
\* value of `learned` leaves `learned` and the cursor as they were, and any
\* step that changes `learned` appends the binding of the name that was
\* pending before it, so the name pending before a duplicate is the one
\* bound next.
C12_DuplicateRejected ==
    /\ [][(pc = "check" /\ IsNotNone(code) /\ code \in DictValues(learned))
           => (learned' = learned /\ Len(learned') = Len(learned))]_vars
    /\ [][learned' # learned
           => learned' = Append(learned, [btn |-> Pending(learned), code |-> code])]_vars

\* a duplicate has just been rejected while a name was still pending
C12_Witness ==
    /\ pc = "sleep"
    /\ code \in DictValues(learned)
    /\ out = <<>>
    /\ Len(learned) \in 1..(NumButtons - 1)

\* C13: learning ignores Invalid.  The check of a capture that decoded to
\* None leaves `learned` and the cursor as they were and goes straight to
\* the next capture (no delay in between).
C13_LearningIgnoresInvalid ==
    [][(pc = "check" /\ code = None /\ code = decode_nec(trans))
       => (learned' = learned /\ Len(learned') = Len(learned) /\ pc' = "capture")]_vars

\* an invalid capture has just been ignored while a name was still pending
C13_Witness ==
    /\ pc = "capture"
    /\ trans # <<>>
    /\ code = None
    /\ Len(learned) \in 1..(NumButtons - 1)

\* the set of all expected names
ExpectedNames == { EXPECTED_BUTTONS[i] : i \in DOMAIN EXPECTED_BUTTONS }

\* C14: completion.  The loop is left only with len(learned) equal to the
\* number N of expected names and `learned` then has exactly N entries, one
\* per expected name; with fewer than N entries the loop cannot be left;
\* with N entries no capture can start, and none is in progress.
C14_Completion ==
    /\ Len(learned) <= Len(EXPECTED_BUTTONS)
    /\ pc = "done" => /\ Len(learned) = Len(EXPECTED_BUTTONS)
                      /\ DictKeys(learned) = ExpectedNames
                      /\ Cardinality(DictKeys(learned)) = Len(EXPECTED_BUTTONS)
                      /\ ~ENABLED NextLearn
    /\ Len(learned) < Len(EXPECTED_BUTTONS) => ~ENABLED KD_Exit
    /\ Len(learned) = Len(EXPECTED_BUTTONS)
         => (~ENABLED KD_Capture /\ pc \in {"sleep", "capture", "done"})

\* the loop has been left with every expected name bound
C14_Witness ==
    /\ pc = "done"
    /\ Len(learned) = NumButtons
    /\ Len(out) = NumButtons + 1

\* the distinct button codes decoded so far (0xFFFFFFFF is not a button code)
ButtonCodes == { arrived[i] : i \in DOMAIN arrived } \ {REPEAT_CODE}

\* C15: learning liveness, as claimed.  Bursts keep arriving and the loop
\* steps are weakly fair; once the decoded stream has held N pairwise
\* distinct button codes, the loop eventually reaches `done`.
C15_LearningCompletes ==
    (Cardinality(ButtonCodes) >= NumButtons) ~> (pc = "done")

\* C16: code resolution, as claimed.  When the detection loop has handled a
\* decoded value c other than 0xFFFFFFFF it has printed exactly one line:
\* "Button pressed" with the label of c if c is a key of the keymap, and
\* "Unknown code" with c itself otherwise; the keymap is never modified.
C16_CodeResolution ==
    /\ table = keymap
    /\ (script = "ir_detect_keys" /\ pc \in {"sleep", "capture"}
          /\ IsNotNone(code) /\ code # REPEAT_CODE)
        => out = << IF \E e \in keymap : e.code = code
                    THEN Line("Button pressed",
                              (CHOOSE e \in keymap : e.code = code).label, code)
                    ELSE Line("Unknown code", "", code) >>

\* C17: repeat is never resolved, as claimed.  Whatever the keymap, when the
\* detection loop has handled a burst that decoded to 0xFFFFFFFF it has not
\* printed a "Button pressed" line.
C17_RepeatNeverResolved ==
    (script = "ir_detect_keys" /\ pc \in {"sleep", "capture"} /\ code = REPEAT_CODE)
    => \A i \in DOMAIN out : out[i].kind # "Button pressed"

\* C18: event output, as claimed.  When the detection loop has handled a
\* captured burst it has printed exactly one line if the burst decoded to a
\* value (the repeat indicator for 0xFFFFFFFF, a button or unknown-code
\* line otherwise) and no line if the burst decoded to None; never two.
C18_OneEventPerBurst ==
    /\ script = "ir_detect_keys" => Len(out) <= 1
    /\ (script = "ir_detect_keys" /\ pc \in {"sleep", "capture"} /\ trans # <<>>)
        => /\ Len(out) = (IF IsNotNone(code) THEN 1 ELSE 0)
           /\ \A i \in DOMAIN out :
                 (out[i].kind = "(repeat)") <=> (code = REPEAT_CODE)

\* C19: falling edge, as claimed.  Once the idle wait of capture_transitions
\* is over (and so for every burst it returns), the call has sampled the pin
\* high before the low sample that starts segment 0.
C19_StartsAtFallingEdge ==
    cap.pc \notin {"idle", "wait"} => obs.sawHigh

\* C20: capture window, as claimed.  The polling loop is left only when the
\* window has elapsed since the stamp the deadline was computed from; the
\* returned list ends with the segment in progress, its durations are not
\* negative, and they sum to the time from the stamp of segment 0 to the
\* final clock read, which is at least the window.
C20_CaptureWindow ==
    /\ cap.pc \in {"finish", "returned"} => obs.base >= MAX_WINDOW_MS * 1000
    /\ cap.pc = "returned"
         => /\ Len(trans) >= 1
            /\ trans[Len(trans)][1] = cap.last
            /\ \A i \in DOMAIN trans : trans[i][2] >= 0
            /\ SumDur(trans, 1) = obs.since
            /\ SumDur(trans, 1) >= MAX_WINDOW_MS * 1000

\* C21: the burst is never empty.  Whatever the polls read, the returned
\* list has at least one segment, and its last segment is the one appended
\* after the deadline: the level in progress with the time it had lasted.
C21_NeverEmpty ==
    cap.pc = "returned"
    => /\ Len(trans) >= 1
       /\ trans[Len(trans)] = <<cap.last, obs.seg>>
       /\ obs.base >= MAX_WINDOW_MS * 1000
       /\ (\A i \in DOMAIN obs.reads : obs.reads[i] = 0) => Len(trans) = 1

\* a call has returned although no poll read a level change
C21_Witness ==
    /\ cap.pc = "returned"
    /\ Len(obs.reads) >= 2
    /\ \A i \in DOMAIN obs.reads : obs.reads[i] = 0
    /\ trans = <<<<0, obs.since>>>>

\* how many reads of r differ from the level before them (low at the trigger)
Changes(r) ==
    Cardinality({ i \in DOMAIN r : r[i] # (IF i = 1 THEN 0 ELSE r[i - 1]) })

\* C22: segment recording.  A poll that reads a level other than that of
\* the segment in progress appends one segment, the previous level with the
\* time elapsed since the segment start, and restarts the segment at its
\* own timestamp; a poll that reads the same level appends nothing.  So the
\* list holds one segment per observed change, and one more once returned.
C22_SegmentRecording ==
    /\ [][cap.pc = "poll"
           => LET v == obs'.reads[Len(obs'.reads)]
              IN  IF v # cap.last
                  THEN /\ cap'.transitions = Append(cap.transitions, <<cap.last, obs.seg>>)
                       /\ cap'.last = v
                       /\ cap'.last_t = ticks
                  ELSE /\ cap'.transitions = cap.transitions
                       /\ cap'.last = cap.last
                       /\ cap'.last_t = cap.last_t]_vars
    /\ [](cap.pc \in {"test", "poll", "sleep", "finish"}
            => Len(cap.transitions) = Changes(obs.reads))
    /\ [](cap.pc = "returned" => Len(trans) = Changes(obs.reads) + 1)

\* a returned burst of three or more segments with a poll that read no change
C22_Witness ==
    /\ cap.pc = "returned"
    /\ Len(trans) >= 3
    /\ Len(obs.reads) > Changes(obs.reads)

\* the last segment of a list
LastSeg(t) == t[Len(t)]

\* C23: wraparound safety.  Whatever the counter value at burst start, the
\* polling goes on exactly while less than the window has elapsed since the
\* deadline's stamp, no recorded duration is negative, each appended
\* duration is the true time the segment lasted, and the durations add up
\* to the true time elapsed since the stamp of segment 0.
C23_WraparoundSafe ==
    /\ [](cap.pc = "poll" => obs.base < MAX_WINDOW_MS * 1000)
    /\ [](cap.pc = "finish" => obs.base >= MAX_WINDOW_MS * 1000)
    /\ [](\A i \in DOMAIN cap.transitions : cap.transitions[i][2] >= 0)
    /\ [](cap.pc \in {"test", "poll", "sleep", "finish", "returned"}
            => SumDur(cap.transitions, 1) + (IF cap.pc = "returned" THEN 0 ELSE obs.seg)
                 = obs.since)
    /\ [][Len(cap'.transitions) > Len(cap.transitions)
           => LastSeg(cap'.transitions)[2]
                = (IF cap.pc = "poll" THEN obs.seg ELSE obs'.seg)]_vars

\* a burst whose closing segment spans the wrap of the counter
C23_Witness ==
    /\ cap.pc = "returned"
    /\ Len(trans) >= 2
    /\ cap.last_t > ticks
    /\ cap.deadline < MAX_WINDOW_MS * 1000

(***************************************************************************)
(* C24: the idle wait is unbounded and cannot be cancelled.  A call of     *)
(* capture_transitions leaves the wait, and so returns, only after a       *)
(* sample of the pin was low; as long as every sample is high the call is  *)
(* still in the wait, it has recorded no segment, the main loop is still   *)
(* at the call and the iteration has emitted nothing.                      *)
(***************************************************************************)
C24_IdleWaitUnbounded ==
    /\ cap.pc \notin {"idle", "wait"} => obs.low
    /\ cap.pc = "wait" =>
          /\ ~obs.low
          /\ cap.transitions = <<>>
          /\ pc = "capture"
          /\ out = <<>>

\* the call is in the wait after a high sample of an idle pin, in an
\* iteration that follows one that emitted
C24_Witness ==
    /\ cap.pc = "wait"
    /\ obs.sawHigh
    /\ obs.air = "idle"
    /\ Len(trans) > 0

(***************************************************************************)
(* C25: only the idle wait can hold a pipeline up.  With the script        *)
(* running (a statement that can run does run, the clock advancing in      *)
(* every sleep) and whatever the transmitter does, a call that has left    *)
(* the idle wait returns, the burst is decoded and resolved, and the loop  *)
(* comes to its next idle wait, or, for the learning loop with every       *)
(* button learned, to its end.                                             *)
(***************************************************************************)
C25_OnlyIdleWaitBlocks ==
    (cap.pc = "start") ~> (cap.pc = "wait" \/ pc = "done")

\* the next idle wait is reached after a burst that was decoded to a code
C25_Witness ==
    /\ cap.pc = "wait"
    /\ ~obs.sawHigh
    /\ Len(trans) > 0
    /\ IsNotNone(code)

(***************************************************************************)
(* C26: strictly sequential processing without buffering.  A call of       *)
(* capture_transitions runs only while the loop is at the call; decoding,  *)
(* emitting and sleeping happen only after it has returned and work on the *)
(* burst it returned; a code at hand after decoding is the code of the     *)
(* frame whose low sample ended the idle wait of this iteration.  So a     *)
(* frame that came and went while the loop was decoding, emitting or       *)
(* sleeping is never the source of an event.                               *)
(***************************************************************************)
C26_SequentialNoBuffering ==
    /\ cap.pc \notin {"idle", "returned"} => pc = "capture"
    /\ pc \in {"print", "decode", "check", "sleep", "done"} =>
          /\ cap.pc = "returned"
          /\ trans = cap.transitions
    /\ (pc \in {"check", "sleep"} /\ IsNotNone(code)) => code = obs.src

\* an event is emitted for the frame of another key after the frame of
\* key "0" went by unheard during a sleep
C26_Witness ==
    /\ script = "ir_detect_keys"
    /\ pc = "sleep"
    /\ out # <<>>
    /\ obs.lost = Key0.c
    /\ IsNotNone(code)
    /\ code # obs.lost

(***************************************************************************)
(* C27: a decode error is recovered locally and the burst is not retried.  *)
(* When the decoder has returned None, the next step of the loop goes back *)
(* to the capture with the keymap and the learned mapping as they were     *)
(* (ir_detect_keys.py prints nothing, simple_decoder.py reports the        *)
(* failure), and the decoder is only ever entered straight from a capture, *)
(* so the burst that failed is not decoded again.                          *)
(***************************************************************************)
C27_DecodeErrorsRecovered ==
    [][ /\ (pc = "check" /\ code = None) =>
              /\ pc' = "capture"
              /\ table' = table
              /\ learned' = learned
              /\ script = "ir_detect_keys" => out' = out
              /\ script = "simple_decoder" =>
                    out' = Append(out, Line("Could not decode NEC from this capture.", "", None))
        /\ (pc' = "decode" /\ pc # "decode") =>
              /\ pc \in {"capture", "print"}
        /\ (pc' = "print" /\ pc # "print") => pc = "capture"
      ]_vars

\* ir_detect_keys.py is back at the capture after a burst that was long
\* enough but did not decode
C27_Witness ==
    /\ script = "ir_detect_keys"
    /\ pc = "capture"
    /\ Len(trans) >= 4
    /\ code = None
    /\ out = <<>>

\* the delay the learning loop is to leave after a capture, in milliseconds
MIN_LEARN_DELAY_MS == 500

(***************************************************************************)
(* C28: inter-capture delay in learning.  Once a button is learned, the    *)
(* learning loop is in its idle wait only when at least one capture window *)
(* and 500 ms have passed since the accepted burst began, and a burst that *)
(* is about to be accepted began at least that long after the burst        *)
(* accepted before it.                                                     *)
(***************************************************************************)
C28_LearningDelay ==
    (script = "remote_keys_decoder" /\ learned # <<>>) =>
        /\ cap.pc = "wait" =>
              obs.prev >= (MAX_WINDOW_MS + MIN_LEARN_DELAY_MS) * 1000
        /\ (pc = "check" /\ ~Falsy(code) /\ NotLearned(code, learned)) =>
              obs.prev - obs.base >= (MAX_WINDOW_MS + MIN_LEARN_DELAY_MS) * 1000

\* a second button is about to be learned from a burst that began as soon
\* after the first one as the loop allows
C28_Witness ==
    /\ script = "remote_keys_decoder"
    /\ pc = "check"
    /\ Len(learned) = 1
    /\ ~Falsy(code)
    /\ NotLearned(code, learned)
    /\ obs.prev - obs.base = (MAX_WINDOW_MS + MIN_LEARN_DELAY_MS) * 1000

\* four hexadecimal digits of a 16-bit limb, and their value
Hex4(n) == <<n \div 4096, (n \div 256) % 16, (n \div 16) % 16, n % 16>>

ParseHex4(h) == ((h[1] * 16 + h[2]) * 16 + h[3]) * 16 + h[4]

\* `f"0x{v:08X}"`: the eight digits printed for a learned code
Hex08X(c) == Hex4(c.hi) \o Hex4(c.lo)

\* the integer such a literal denotes in a keymap
ParseHex(h) == Int32(ParseHex4(SubSeq(h, 1, 4)), ParseHex4(SubSeq(h, 5, 8)))

\* the code-to-label table made of the printed final mapping
Inverted(d) ==
    { [code |-> ParseHex(Hex08X(d[i].code)), label |-> d[i].btn] : i \in DOMAIN d }

\* a code-to-label table is one-to-one in both directions
OneToOne(t) ==
    \A e, f \in t : (e.code = f.code \/ e.label = f.label) => e = f

(***************************************************************************)
(* C29: code/label round trip.  The static keymap is one-to-one in both    *)
(* directions.  When a learning session has completed, the code-to-label   *)
(* table made by inverting the printed mapping is one-to-one as well, has  *)
(* one entry per expected button, resolves every learned code to the name  *)
(* it was learned for and to no other, and that name is bound to the same  *)
(* code in the learned mapping.                                            *)
(***************************************************************************)
C29_RoundTrip ==
    /\ OneToOne(keymap)
    /\ pc = "done" =>
          /\ OneToOne(Inverted(learned))
          /\ Cardinality(Inverted(learned)) = Len(EXPECTED_BUTTONS)
          /\ \A i \in DOMAIN learned :
                /\ { e.label : e \in { f \in Inverted(learned) : f.code = learned[i].code } }
                     = { learned[i].btn }
                /\ { learned[j].code : j \in { k \in DOMAIN learned :
                                                  learned[k].btn = learned[i].btn } }
                     = { learned[i].code }

\* a session has completed although a code arrived twice
C29_Witness ==
    /\ pc = "done"
    /\ Len(learned) = NumButtons
    /\ \E i, j \in DOMAIN arrived : i # j /\ arrived[i] = arrived[j]

\* the length-based rejection of the decoder copy that was called
RejectedForLength ==
    IF script = "decode_nec_from_transitions" THEN SD_TooShort(trans) ELSE TooShort(trans)

(***************************************************************************)
(* C30: length check, as claimed.  In every decoder copy the list is       *)
(* rejected for its length exactly when it has fewer than 4 segments, and  *)
(* a list of 0 to 3 segments decodes to None.                              *)
(***************************************************************************)
C30_LengthCheck ==
    pc = "check" =>
        /\ RejectedForLength <=> Len(trans) < 4
        /\ Len(trans) < 4 => code = None

\* the decoder copy that was called, and the bits its pair walk collects
DecodeOf(t) ==
    IF script \in {"decode_nec_from_transitions", "simple_decoder"}
    THEN decode_nec_from_transitions(t) ELSE decode_nec(t)

WalkOf(t) ==
    IF script \in {"decode_nec_from_transitions", "simple_decoder"}
    THEN SD_PairWalk(t, 2, <<>>) ELSE PairWalk(t, 2, <<>>)

\* segment k supplies the 32nd bit of a list that decodes to a value: the
\* list cut there decodes, cut one earlier it does not
SuppliesLast(t, k) ==
    /\ IsNotNone(DecodeOf(SubSeq(t, 1, k)))
    /\ ~IsNotNone(DecodeOf(SubSeq(t, 1, k - 1)))

\* segments that may follow: nothing, the stop mark, the trailing idle, a
\* repeat frame in the same window, more data pairs, a stray high segment
Tails ==
    { <<>>,
      <<Seg(0, 560)>>,
      <<Seg(0, 560), Seg(1, 40000)>>,
      <<Seg(0, 560), Seg(1, 40000), Seg(0, 9000), Seg(1, 2250), Seg(0, 560), Seg(1, 96000)>>,
      <<Seg(0, 560), Seg(1, 1690), Seg(0, 560), Seg(1, 560), Seg(0, 560), Seg(1, 1690)>>,
      <<Seg(1, 1690), Seg(0, 560), Seg(1, 1690)>> }

(***************************************************************************)
(* C31: the decoder stops at 32 bits.  When a list decodes to a value, the *)
(* list cut after the segment that supplied the 32nd bit and followed by   *)
(* any further segments decodes to the same value, and the pair walk       *)
(* collects from it the same 32 bits and no more.                          *)
(***************************************************************************)
C31_StopsAt32 ==
    (pc = "check" /\ IsNotNone(code)) =>
        /\ \E k \in 1..Len(trans) : SuppliesLast(trans, k)
        /\ \A k \in 1..Len(trans) :
              SuppliesLast(trans, k) =>
                \A x \in Tails :
                    /\ DecodeOf(SubSeq(trans, 1, k) \o x) = code
                    /\ WalkOf(SubSeq(trans, 1, k) \o x) = WalkOf(SubSeq(trans, 1, k))
                    /\ Len(WalkOf(SubSeq(trans, 1, k) \o x)) = NBITS

\* a frame with a stray segment before its last pair has decoded: the 32nd
\* bit comes from segment 67
C31_Witness ==
    /\ pc = "check"
    /\ code = Int32(4660, 22136)
    /\ sent.ins = NBITS - 1
    /\ SuppliesLast(trans, FullLen + 1)

(***************************************************************************)
(* C32: each burst is fresh.  Every call of capture_transitions starts its *)
(* list empty; the segments it holds, and those of the burst it returns,   *)
(* begin with the low level sampled at the start of this call and cover    *)
(* exactly the time elapsed since then, so none is of an earlier burst.    *)
(* The loop's burst changes only when a call returns, and a burst is       *)
(* decoded once: the decoder is entered only after a call has returned and *)
(* the code at hand changes only there, to the decoding of that burst.     *)
(***************************************************************************)
C32_FreshBurst ==
    /\ [][cap.pc = "start" => cap'.transitions = <<>>]_vars
    /\ [](cap.pc \in {"test", "poll", "sleep", "finish"} =>
            /\ SumDur(cap.transitions, 1) + obs.seg = obs.since
            /\ cap.transitions # <<>> => cap.transitions[1][1] = 0)
    /\ [](pc \in {"print", "decode", "check"} =>
            /\ trans = cap.transitions
            /\ trans[1][1] = 0
            /\ SumDur(trans, 1) = obs.since)
    /\ [][trans' # trans => (cap.pc = "finish" /\ trans' = cap'.transitions)]_vars
    /\ [][(pc' = "decode" /\ pc # "decode") =>
            (cap.pc = "finish" \/ (pc = "print" /\ cap.pc = "returned"))]_vars
    /\ [][code' # code =>
            (pc = "decode" /\ pc' = "check" /\ code' = DecodeOf(trans))]_vars

\* a second burst, not the one before it, has been returned and decoded
C32_Witness ==
    /\ pc = "check"
    /\ Len(trans) > 1
    /\ IsNotNone(code)
    /\ IsNotNone(obs.lost)
    /\ code # obs.lost

\* segment 0 is low and each segment has the other level than the one before
Alternating(t) ==
    /\ t # <<>> => t[1][1] = 0
    /\ \A i \in 1..(Len(t) - 1) : t[i + 1][1] = 1 - t[i][1]

\* the indices the while loop of the decoder visits from i on (n bits
\* collected so far), each with whether it found a (low, high) pair there
RECURSIVE Visits(_, _, _, _)
Visits(t, i, n, seen) ==
    IF i + 1 < Len(t) /\ n < NBITS
    THEN IF t[i + 1][1] # 0 \/ t[i + 2][1] # 1
         THEN Visits(t, Realign(i), n, Append(seen, <<i, FALSE>>))
         ELSE Visits(t, i + 2, n + 1, Append(seen, <<i, TRUE>>))
    ELSE seen

(***************************************************************************)
(* C33: the list capture_transitions builds, and the burst it returns,     *)
(* starts with a low segment and alternates strictly.  So the pair walk of *)
(* the decoder on a returned burst visits even indices only, finds a       *)
(* (low, high) pair at each, and never takes its realignment branch.       *)
(***************************************************************************)
C33_AlternatingLevels ==
    /\ Alternating(cap.transitions)
    /\ cap.pc = "returned" =>
          /\ Alternating(trans)
          /\ \A k \in DOMAIN Visits(trans, 2, 0, <<>>) :
                /\ Visits(trans, 2, 0, <<>>)[k][1] % 2 = 0
                /\ Visits(trans, 2, 0, <<>>)[k][2]

\* a returned burst long enough for the walk to visit two pairs
C33_Witness ==
    /\ cap.pc = "returned"
    /\ Len(trans) >= 6
    /\ Len(Visits(trans, 2, 0, <<>>)) = 2

(***************************************************************************)
(* C34: the decoder terminates and stays inside the burst.  On every list  *)
(* the while loop visits index 2 first, each later index is 2 more than    *)
(* the one before when a (low, high) pair was found there and 1 more when  *)
(* not, at every visited index i both i and i + 1 are indices of the list, *)
(* the loop runs at most once per segment, it appends one bit for each     *)
(* pair found, and the call returns.                                       *)
(***************************************************************************)
C34_TerminatesInBounds ==
    LET v == Visits(trans, 2, 0, <<>>)
    IN  /\ v # <<>> => v[1][1] = 2
        /\ \A k \in 1..(Len(v) - 1) :
              v[k + 1][1] - v[k][1] = (IF v[k][2] THEN 2 ELSE 1)
        /\ \A k \in DOMAIN v : v[k][1] >= 2 /\ v[k][1] + 1 < Len(trans)
        /\ Len(v) <= Len(trans)
        /\ Cardinality({ k \in DOMAIN v : v[k][2] }) = Len(WalkOf(trans))
        /\ pc = "check" => code = DecodeOf(trans)

\* a call has returned a value for a burst on which the walk stepped by one
\* at a stray segment
C34_Witness ==
    /\ pc = "check"
    /\ sent.ins > 0
    /\ IsNotNone(code)
    /\ \E k \in DOMAIN Visits(trans, 2, 0, <<>>) : ~Visits(trans, 2, 0, <<>>)[k][2]

\* a leader duration at which the strict and the closed intervals differ
LeaderEdge(t) ==
    /\ Len(t) >= 2
    /\ t[1][2] \in {7000, 10000} \/ t[2][2] \in {3500, 5000}

(***************************************************************************)
(* C35: the decoder copies compute one function.  decode_nec has the same  *)
(* statements in ir_detect_keys.py, remote_ir_sensor_handler.py,           *)
(* remote_keys_decoder.py and IR_WS2812.py (one operator here), and        *)
(* decode_nec_from_transitions of simple_decoder.py returns what           *)
(* decode_nec returns on every list whose leader durations are not exactly *)
(* 7000, 10000, 3500 or 5000; on lists of 4 to 9 segments, which only      *)
(* simple_decoder.py rejects for their length, both return None.           *)
(***************************************************************************)
C35_CopiesAgree ==
    pc = "check" =>
        /\ code = DecodeOf(trans)
        /\ ~LeaderEdge(trans) => decode_nec_from_transitions(trans) = decode_nec(trans)
        /\ (SD_TooShort(trans) /\ ~TooShort(trans)) =>
              (decode_nec(trans) = None /\ decode_nec_from_transitions(trans) = None)

\* simple_decoder.py has rejected for its length a list with a good leader
\* that decode_nec lets through to the pair walk
C35_Witness ==
    /\ pc = "check"
    /\ script = "decode_nec_from_transitions"
    /\ Len(trans) = 9
    /\ LeaderOk(trans)
    /\ code = None

\* durations a mark may be given: none, nominal, in the bit-1 range of a
\* space, longer than a leader
MarkDurs == {0, 560, 1690, 20000}

\* list t with the duration of every low segment after the leader replaced:
\* by d, or by d on every other mark only
Remarked(t, d, every) ==
    [j \in DOMAIN t |->
        IF j >= 3 /\ t[j][1] = 0 /\ (every \/ j % 4 = 3) THEN <<0, d>> ELSE t[j]]

(***************************************************************************)
(* C36: the decode result does not depend on mark durations.  A list       *)
(* decodes to the same result as the list with the same length, levels,    *)
(* leader and high segments whose low segments from index 2 on last 0,     *)
(* 560, 1690 or 20000 us, all of them or every other one.                  *)
(***************************************************************************)
C36_MarkIndependent ==
    pc = "check" =>
        \A d \in MarkDurs : \A every \in BOOLEAN :
            DecodeOf(Remarked(trans, d, every)) = code

\* a frame has decoded to a code, and its marks differ from the durations
\* they are replaced by
C36_Witness ==
    /\ pc = "check"
    /\ code = Int32(4660, 22136)
    /\ sent.mk = 9000
    /\ Remarked(trans, 0, FALSE) # trans

(***************************************************************************)
(* C37: the keys of `learned`.  In every state of the learning loop the    *)
(* keys of `learned` are the first len(learned) names of EXPECTED_BUTTONS  *)
(* in list order and there are no more bindings than names; when the loop  *)
(* is about to bind, EXPECTED_BUTTONS[len(learned)] exists; `learned`      *)
(* changes only in the check of an iteration, by one new binding, and no   *)
(* binding is removed or changed.                                          *)
(***************************************************************************)
C37_LearnedKeys ==
    /\ [](/\ Len(learned) <= Len(EXPECTED_BUTTONS)
          /\ \A i \in DOMAIN learned : learned[i].btn = EXPECTED_BUTTONS[i]
          /\ pc \in {"decode", "check"} => Len(learned) < Len(EXPECTED_BUTTONS))
    /\ [][learned' # learned =>
            /\ pc = "check" /\ pc' = "sleep"
            /\ Len(learned') = Len(learned) + 1
            /\ Kept(learned, learned')]_vars

\* the last name has been bound after a capture that bound nothing
C37_Witness ==
    /\ Len(learned) = Len(EXPECTED_BUTTONS)
    /\ pc = "sleep"
    /\ Len(arrived) > Len(learned)
    /\ learned[Len(learned)].btn = EXPECTED_BUTTONS[NumButtons]


\* the loop resolves a code that is a key of its keymap
KnownButton == pc = "check" /\ ~Falsy(code) /\ InKeymap(code)

\* C38: the matrix changes only on a known button.  Every label of the
\* keymap is a key of PATTERNS; a step of the display loop that resolves a
\* known code leaves the buffer and the matrix holding the pattern of its
\* label in the display colour and prints "Displaying", never "not found";
\* every other step outside the fade of stop() (an invalid frame, code 0, a
\* repeat frame, an unknown code, the capture, the sleep) leaves the pixel
\* buffer and the matrix as they were.
C38_OnlyKnownButtons ==
    [][ /\ \A e \in table : e.label \in DOMAIN PATTERNS
        /\ KnownButton
              => /\ led'.np = Rendered(PATTERNS[KeymapGet(code)],
                                       led.display_color)
                 /\ led'.matrix = led'.np
                 /\ out' = << Line("Button pressed", KeymapGet(code), code),
                              Line("Displaying", KeymapGet(code), code) >>
        /\ (~KnownButton /\ pc # "fade")
              => /\ led'.np = led.np
                 /\ led'.matrix = led.matrix
                 /\ \A n \in (Len(out) + 1)..Len(out') :
                       out'[n].kind \in {"(repeat)", "Unknown code"}
      ]_vars

\* an unknown code went by while the pattern of "0" stayed on the matrix
C38_Witness ==
    /\ script = "IR_WS2812"
    /\ pc = "sleep"
    /\ out = << Line("Unknown code", "", Int32(4660, 22136)) >>
    /\ led.display_color # OFF
    /\ led.np = Rendered(PATTERNS["0"], led.display_color)
    /\ led.matrix = led.np
    /\ led.np # Blank


\* the stop pattern as show_char renders it
StopShown == Rendered(PATTERNS["stop"], led.display_color)

\* C39: stop fades, the other patterns stay.  When the last known button is
\* "stop", stop() starts from the rendered stop pattern, no pixel is ever
\* brighter than in that pattern during the fade and every lit one is dimmer
\* from the second pass on, and once stop() has returned (so during the
\* sleep, at the next capture and until another known button) all 64
\* pixels of the buffer and of the matrix are off.  When the last known
\* button is another one, its pattern is on the matrix, through every
\* capture, invalid frame, repeat frame and unknown code that follows.
C39_StopFadesOthersStay ==
    script = "IR_WS2812" =>
      /\ (pc = "fade") => led.last = "stop"
      /\ (pc = "fade" /\ led.s = 0) => (led.np = StopShown /\ led.matrix = led.np)
      /\ (pc = "fade") =>
            \A i \in Pixels, k \in 1..3 :
                /\ led.matrix[i][k] <= StopShown[i][k]
                /\ (led.s >= 2 /\ StopShown[i][k] > 0)
                      => led.matrix[i][k] < StopShown[i][k]
      /\ (led.last = "stop" /\ pc # "fade")
            => /\ \A i \in Pixels : led.np[i] = OFF /\ led.matrix[i] = OFF
               /\ Cardinality(Pixels) = 64
               /\ led.s = FADE_STEPS
      /\ (led.last \notin {"", "stop"})
            => /\ led.np = Rendered(PATTERNS[led.last], led.display_color)
               /\ led.matrix = led.np

\* the stop pattern was lit and faded, and the next capture begins in the
\* dark
C39_Witness ==
    /\ script = "IR_WS2812"
    /\ pc = "capture"
    /\ led.last = "stop"
    /\ led.display_color # OFF
    /\ StopShown # Blank
    /\ led.s = FADE_STEPS
    /\ led.matrix = Blank

====
